---- MODULE Spec2Model ----
(***************************************************************************)
(* Verification model of coderanger/controller-utils.                      *)
(*                                                                         *)
(*   Spec          the reconcile engine (core.Reconciler.Reconcile) driving *)
(*                 an ordered list of components over one managed object.  *)
(*   SpecUnconditioned  the same engine over an object whose type has no   *)
(*                 list of status conditions.                              *)
(*   SpecTemplate  the template component (components/template.go) applying *)
(*                 or deleting the object its template renders.            *)
(*   SpecReady     the ready status component (components/ready_status.go) *)
(*                 computing the aggregate Ready condition.                *)
(*   SpecSecret    the random secret component (components/random_secret.go) *)
(*                 generating the values of a Secret.                      *)
(*   SpecPredicates  the event predicates (predicates/deep_equals.go,      *)
(*                 predicates/secret_field.go) deciding on watch events.   *)
(*   SpecLedger    the conditions helper (core/conditions.go) buffering    *)
(*                 conditions and flushing them into the condition list.   *)
(***************************************************************************)
EXTENDS Integers, Sequences, FiniteSets, TLC

(***************************************************************************)
(* Bounds of the model.                                                    *)
(***************************************************************************)
\* Number of components registered on the Reconciler.
NSteps == 3

Steps == 1..NSteps

\* RequeueAfter values (seconds) a component may return; 0 is "not set".
Durations == {0, 10, 30}

\* One letter per component, used to build its condition type.
Letters == <<"A", "B", "C", "D", "E">>

\* Minimum of a non-empty set of numbers.
MinOf(S) == CHOOSE m \in S : \A x \in S : m <= x

(***************************************************************************)
(* State.                                                                  *)
(***************************************************************************)
VARIABLES
    components,   \* r.components: the registered reconcilerComponent records
    store,        \* the managed object as held by the API server
    pc,           \* position of Reconcile: idle, loop, patchMeta, patchStatus, done
    obj,          \* ctx.Object: the in-memory copy being reconciled
    cleanObj,     \* the clean snapshot taken right after the fetch
    pending,      \* ctx.Conditions.pendingConditions
    result,       \* ctx.result
    errors,       \* ctx.errors
    ctxData,      \* ctx.Data: the value under each key, 0 where there is none
    err,          \* the function-level variable err of Reconcile
    idx,          \* index of the component the loop is at
    ret,          \* what Reconcile returned (valid when pc = "done")
    hist,         \* history: per component, what was called in this pass and what it did
    returned,     \* history: the requeue hints the calls of this pass returned
    patched,      \* history: the end-of-pass patches sent in this pass, and which
                  \* of them the API server answered with NotFound
    \* History kept for deterministic registrations (constant otherwise):
    clean,        \* nothing outside the engine acted since this pass began
    quiet,        \* consecutive complete passes without outside action (up to 2)
    prevDone,     \* a Finalize of the previous pass reported done
    \* The template component, on its own:
    templ,        \* the templateComponent and what its template renders to
    target,       \* the object the template describes, as the API server holds it
    last,         \* history: the latest call of the component, while nothing else
                  \* has touched the target since
    \* The ready status component, on its own:
    readyComp,    \* the readyStatusComponent: keys and readyConditions
    readyObj,     \* the status conditions of the object it reads, per type
    readySet,     \* history: what its latest Reconcile passed to Setf, while the
                  \* object's conditions have not changed since
    \* The random secret component, on its own:
    secretComp,   \* the randomSecretComponent: its keys (and, as history, the
                  \* keys its constructor was given)
    secret,       \* the Secret as the API server holds it
    secretLast,   \* history: the latest Reconcile of the component, while nothing
                  \* else has touched the Secret since
    \* The event predicates, on their own:
    secretField,  \* the secretFieldPredicate: its keys
    evt,          \* the watch event handed to a predicate
    verdict,      \* history: which predicate method ran on evt and what came of it
    \* The conditions helper, on its own:
    helper,       \* the conditionsHelper: pendingConditions, and the condition
                  \* list and generation of its obj
    helperHist    \* history: the latest call on the helper and the list before
                  \* it, the values the Sets since the previous Flush passed, and
                  \* the list before those Sets
    ,
    \* ContextData, on its own:
    shared,       \* a ContextData map: the value under each key
    fetched,      \* history: the latest GetString on it and what came of it
    \* The filtered template filesystem, on its own:
    ffs,          \* the FilteredFileSystem: the directory under it and its filters
    file,         \* the FilteredFile the latest successful Open returned
    fsLast,       \* history: the latest Open or Readdir and what came of it
    \* Concurrent passes of one Reconciler, on their own:
    runs,         \* per resource identity: the invocation of Reconcile under way,
                  \* its Context, and as history what it fetched, what its
                  \* component calls returned and what they saw in ctx.Data
    stored        \* per resource identity: the status conditions in the store

engineVars == <<components, store, pc, obj, cleanObj, pending, result, errors, ctxData, err,
                idx, ret, hist, returned, patched, clean, quiet, prevDone>>

templateVars == <<templ, target, last>>

readyVars == <<readyComp, readyObj, readySet>>

secretVars == <<secretComp, secret, secretLast>>

predicateVars == <<secretField, evt, verdict>>

ledgerVars == <<helper, helperHist>>

dataVars == <<shared, fetched>>

filesVars == <<ffs, file, fsLast>>

passVars == <<runs, stored>>

vars == <<engineVars, templateVars, readyVars, secretVars, predicateVars, ledgerVars,
          dataVars, filesVars, passVars>>

\* What the actions of one part leave alone: the variables of the other parts.
exceptEngine == <<templateVars, readyVars, secretVars, predicateVars, ledgerVars,
                 dataVars, filesVars, passVars>>

exceptTemplate == <<engineVars, readyVars, secretVars, predicateVars, ledgerVars,
                 dataVars, filesVars, passVars>>

exceptReady == <<engineVars, templateVars, secretVars, predicateVars, ledgerVars,
                 dataVars, filesVars, passVars>>

exceptSecret == <<engineVars, templateVars, readyVars, predicateVars, ledgerVars,
                 dataVars, filesVars, passVars>>

exceptPredicates == <<engineVars, templateVars, readyVars, secretVars, ledgerVars,
                 dataVars, filesVars, passVars>>

exceptLedger == <<engineVars, templateVars, readyVars, secretVars, predicateVars,
                 dataVars, filesVars, passVars>>

exceptData == <<engineVars, templateVars, readyVars, secretVars, predicateVars, ledgerVars,
               filesVars, passVars>>

exceptFiles == <<engineVars, templateVars, readyVars, secretVars, predicateVars, ledgerVars,
                dataVars, passVars>>

exceptPasses == <<engineVars, templateVars, readyVars, secretVars, predicateVars, ledgerVars,
                 dataVars, filesVars>>

\* The variables written by the component loop.
loopVars == <<obj, pending, result, errors, ctxData, err, idx, hist, returned>>

(***************************************************************************)
(* Conditions.                                                             *)
(***************************************************************************)
\* Absent entry of a condition list.
NoCond == [Status |-> "None", Reason |-> "", Message |-> 0, ObservedGeneration |-> 0]

\* The condition type component i declares when it declares one.
CondType(i) == <<Letters[i]>>
CondTypes == {CondType(i) : i \in 1..Len(Letters)}

EmptyConds == [t \in CondTypes |-> NoCond]

\* A Set that keeps the condition already buffered for the type.
SetFirstWins(pend, o, conditionType, status, reason, message) ==
    IF pend[conditionType] # NoCond THEN pend
    ELSE [pend EXCEPT ![conditionType] =
            [Status |-> status, Reason |-> reason, Message |-> message,
             ObservedGeneration |-> o.generation]]

\* conditionsHelper.Set: buffer one condition, keyed by type, last write wins.
Set(pend, o, conditionType, status, reason, message) ==
    [pend EXCEPT ![conditionType] =
        [Status |-> status, Reason |-> reason, Message |-> message,
         ObservedGeneration |-> o.generation]]

\* conditionsHelper.SetTrue
ConditionsSetTrue(pend, o, conditionType, reason, message) ==
    Set(pend, o, conditionType, "True", reason, message)

\* conditionsHelper.SetFalse
ConditionsSetFalse(pend, o, conditionType, reason, message) ==
    Set(pend, o, conditionType, "False", reason, message)

\* conditionsHelper.SetUnknown
SetUnknown(pend, o, conditionType, reason) ==
    Set(pend, o, conditionType, "Unknown", reason, 0)

\* conditions.SetStatusCondition: upsert by type; status, reason, message and
\* observed generation always take the new value.
SetStatusCondition(conds, cond, conditionType) ==
    [conds EXCEPT ![conditionType] = cond]

\* conditionsHelper.Flush: apply every pending condition to the object.
Flush(conds, pend) ==
    [t \in CondTypes |->
        IF pend[t] # NoCond THEN SetStatusCondition(conds, pend[t], t)[t]
        ELSE conds[t]]

\* GetConditionsFor on an object of a type: "ok" when the type has the
\* GetConditions method, "error" when the value is a struct without
\* Status.Conditions, and "panic" when the value is a pointer without the
\* method, on which FieldByName of the reflect fallback panics.
GetConditionsFor(o) ==
    IF o.hasConditions = "method" THEN "ok"
    ELSE IF o.hasConditions = "pointer" THEN "panic" ELSE "error"

\* A ledger that is not flushed at the end of an iteration.
FlushHelperDeferred(o, pend) ==
    [err |-> FALSE, panic |-> FALSE, conditions |-> o.conditions, pending |-> pend]

\* conditionsHelper.Flush on the object o with the buffer pend: the error it
\* returns, and the object's conditions and the buffer after it.  When the
\* conditions of the object cannot be got, it returns the error (or panics)
\* before it has applied or zeroed anything.
FlushHelper(o, pend) ==
    IF GetConditionsFor(o) = "ok"
    THEN [err |-> FALSE, panic |-> FALSE, conditions |-> Flush(o.conditions, pend),
          pending |-> EmptyConds]
    ELSE [err |-> GetConditionsFor(o) = "error", panic |-> GetConditionsFor(o) = "panic",
          conditions |-> o.conditions, pending |-> pend]

(***************************************************************************)
(* Results and errors.                                                     *)
(***************************************************************************)
\* core.Result values a component returns.
Results == [Requeue : BOOLEAN, RequeueAfter : Durations, SkipRemaining : BOOLEAN]

ZeroResult == [Requeue |-> FALSE, RequeueAfter |-> 0, SkipRemaining |-> FALSE]

SkipResult == [Requeue |-> FALSE, RequeueAfter |-> 0, SkipRemaining |-> TRUE]

\* ctx.result starts as the zero ctrl.Result.
EmptyResult == [Requeue |-> FALSE, RequeueAfter |-> 0]

\* A merge that lets the latest non-zero RequeueAfter win.
MergeRequeueLast(total, componentResult) ==
    [Requeue |-> total.Requeue \/ componentResult.Requeue,
     RequeueAfter |->
        IF componentResult.RequeueAfter # 0
        THEN componentResult.RequeueAfter
        ELSE total.RequeueAfter]

\* The Requeue / RequeueAfter part of Context.mergeResult.
MergeRequeue(total, componentResult) ==
    [Requeue |-> total.Requeue \/ componentResult.Requeue,
     RequeueAfter |->
        IF componentResult.RequeueAfter # 0
           /\ (total.RequeueAfter = 0 \/ total.RequeueAfter > componentResult.RequeueAfter)
        THEN componentResult.RequeueAfter
        ELSE total.RequeueAfter]

\* errors.Wrapf(err, "error in %s component <what>", name): the error err
\* wrapped under the name of a component.  e is 0 for nil, else the component
\* whose call produced the error value; Wrapf of nil is nil, an entry whose
\* cause is 0.
Wrapf(e, name, what) == [name |-> name, cause |-> e, what |-> what]

\* The error part of Context.mergeResult.  When the flush failed, what is
\* appended is the wrapped err of the component, not the error of the flush;
\* then a non-nil err is appended under the name of the component.
MergeErrors(errs, name, e, condErr) ==
    LET flushed == IF condErr THEN Append(errs, Wrapf(e, name, "condition flush"))
                   ELSE errs
    IN IF e # 0 THEN Append(flushed, Wrapf(e, name, "reconcile")) ELSE flushed

\* A returned error: kind says how it was built, list holds the component
\* errors it carries.  kind "nil" is the nil error.
NilError == [kind |-> "nil", list |-> <<>>]

(***************************************************************************)
(* Component registration.                                                 *)
(***************************************************************************)
\* A registration that trims the negation marker but keeps the error status
\* False.
ComponentNoPolarity(name, comp) ==
    LET negated == comp.ready # <<>> /\ Head(comp.ready) = "!" IN
    [name |-> name,
     comp |-> comp,
     finalizer |-> comp.finalizer,
     readyCondition |-> IF negated THEN Tail(comp.ready) ELSE comp.ready,
     errorConditionStatus |-> "False"]

\* Reconciler.Component: build the reconcilerComponent record from the
\* implementation comp.  comp.finalizer says whether comp implements
\* FinalizerComponent, comp.ready is what GetReadyCondition reports (empty when
\* comp is no ReadyConditionComponent).
Component(name, comp) ==
    LET negated == comp.ready # <<>> /\ Head(comp.ready) = "!" IN
    [name |-> name,
     comp |-> comp,
     finalizer |-> comp.finalizer,
     readyCondition |-> IF negated THEN Tail(comp.ready) ELSE comp.ready,
     errorConditionStatus |-> IF negated THEN "True" ELSE "False"]

\* The kinds of component: with or without Finalize, and the name reported
\* by GetReadyCondition (none, plain, negated).
Profiles == << <<TRUE, "plain">>, <<FALSE, "negated">>, <<TRUE, "none">>,
               <<FALSE, "plain">>, <<TRUE, "negated">>, <<FALSE, "none">> >>

\* Profile of component i in rotation k: every kind occurs at every position.
ProfileOf(i, k) == Profiles[((i - 1 + k) % Len(Profiles)) + 1]

Declared(i, how) ==
    IF how = "none" THEN <<>>
    ELSE IF how = "plain" THEN CondType(i)
    ELSE <<"!">> \o CondType(i)

\* The status a component gives its own condition when all is well.
GoodStatus(how) == IF how = "negated" THEN "False" ELSE "True"

\* In every implementation, writes says whether a call puts a value under
\* the key of the component into ctx.Data, as injectDataComponent of the
\* tests does.

\* An implementation whose calls may fail or not, report done or not, set
\* their own condition or not, and return the zero Result or SkipRemaining.
MixedComp(i, k) ==
    LET p == ProfileOf(i, k) IN
    [finalizer |-> p[1], ready |-> Declared(i, p[2]),
     results |-> {ZeroResult, SkipResult}, fails |-> BOOLEAN, dones |-> BOOLEAN,
     writes |-> p[2] # "negated",
     conds |-> IF p[2] = "none" THEN {"none"} ELSE {"none", GoodStatus(p[2])}]

\* An implementation that can finalize, declares no condition, never fails
\* and returns any Result.
RequeueComp ==
    [finalizer |-> TRUE, ready |-> <<>>,
     results |-> Results, fails |-> {FALSE}, dones |-> BOOLEAN, conds |-> {"none"},
     writes |-> TRUE]

\* A deterministic implementation: every call does the same thing.
Behaviours == [failed : BOOLEAN, sets : BOOLEAN, done : BOOLEAN]

FixedComp(i, k, b) ==
    LET p == ProfileOf(i, k) IN
    [finalizer |-> p[1], ready |-> Declared(i, p[2]),
     results |-> {ZeroResult}, fails |-> {b.failed}, dones |-> {b.done},
     writes |-> p[2] # "plain",
     conds |-> IF p[2] # "none" /\ b.sets THEN {GoodStatus(p[2])} ELSE {"none"}]

Rotations == 0..(Len(Profiles) - 1)

\* The component lists the model registers.
Registrations ==
    {[i \in Steps |-> Component(i, MixedComp(i, k))] : k \in Rotations}
    \cup {[i \in Steps |-> Component(i, RequeueComp)]}
    \cup {[i \in Steps |-> Component(i, FixedComp(i, k, IF i = 1 THEN b1 ELSE b2))] :
            k \in Rotations, b1 \in Behaviours, b2 \in Behaviours}

\* Every call of every registered component does the same thing.
Deterministic ==
    \A i \in Steps :
        LET c == components[i].comp IN
        /\ Cardinality(c.results) = 1 /\ Cardinality(c.fails) = 1
        /\ Cardinality(c.dones) = 1 /\ Cardinality(c.conds) = 1

(***************************************************************************)
(* The template component (components/template.go): it renders an object   *)
(* from a template and applies it to the API server, or deletes it when    *)
(* the rendered object carries the delete annotation.                      *)
(***************************************************************************)
DELETE_ANNOTATION == "controller-utils/delete"
CONDITION_ANNOTATION == "controller-utils/condition"
DEEPEQUALS_ANNOTATION == "controller-utils/deepEquals"

\* The fields of a target object, after the Deployment of the tests.
Fields == {"replicas", "image", "minReadySeconds"}
Values == {"x", "y"}
Absent == "absent"

\* ctx.FieldManager of the component, and any other writer of the target.
FieldManager == "step"
Managers == {FieldManager, "other"}

\* ctx.Object, the Managed Resource, as owner references name it.
Owner == [Group |-> "g", Version |-> "v1", Kind |-> "K", Name |-> "n"]

\* An owner reference; APIVersion is held as its slash-separated parts.
OwnerRef(apiVersion, kind, name, controller) ==
    [APIVersion |-> apiVersion, Kind |-> kind, Name |-> name,
     Controller |-> controller]

\* The owner references a target may carry: to the Managed Resource (as
\* controller, as plain owner, under another version), to objects that differ
\* in group, kind or name, and one whose APIVersion does not parse.
OwnerRefs ==
    {OwnerRef(<<"g", "v1">>, "K", "n", TRUE),
     OwnerRef(<<"g", "v1">>, "K", "n", FALSE),
     OwnerRef(<<"g", "v2">>, "K", "n", TRUE),
     OwnerRef(<<"h", "v1">>, "K", "n", TRUE),
     OwnerRef(<<"g", "v1">>, "L", "n", TRUE),
     OwnerRef(<<"g", "v1">>, "K", "testing-other", TRUE),
     OwnerRef(<<"g", "v1", "x">>, "K", "n", TRUE)}

NoRef == OwnerRef(<<>>, "", "", FALSE)

\* The "status" of a target's content: whether it is there, whether it holds
\* a "conditions" list, and the type and status of the conditions in the list.
NoStatus == [status |-> FALSE, list |-> FALSE, items |-> {}]

UpstreamCondition(type, status) == [type |-> type, status |-> status]

\* The status a target may report.
UpstreamConditions ==
    {NoStatus, [status |-> TRUE, list |-> FALSE, items |-> {}]}
    \cup {[status |-> TRUE, list |-> TRUE, items |-> {c}] :
            c \in {UpstreamCondition("Available", "True"),
                   UpstreamCondition("Available", "False"),
                   UpstreamCondition("Available", "Unknown"),
                   UpstreamCondition("Progressing", "True")}}

\* No target: the API server answers NotFound.
NoTarget ==
    [exists |-> FALSE, fields |-> [f \in Fields |-> Absent],
     managers |-> [f \in Fields |-> {}], owners |-> {}, annotations |-> {},
     conditions |-> NoStatus]

\* What the template may render: the fields it sets.
Renderings ==
    {[f \in {"replicas", "image"} |-> "x"],
     [f \in {"image"} |-> "y"]}

\* The component with its rendered template: conditionType of the
\* constructor, and what the template puts in the annotations ("" when it
\* leaves the annotation out).
Templates ==
    {t \in [conditionType : {"", "Ready"}, fields : Renderings,
            delete : {"", "true", "false"}, condition : {"", "Available"},
            deepEquals : BOOLEAN] :
        t.deepEquals => (t.conditionType = "" /\ t.condition = "")}

\* renderTemplate: the rendered object.  Annotations are key/value pairs.
RenderTemplate(t) ==
    [fields |-> t.fields,
     owners |-> {},
     annotations |->
        (IF t.delete # "" THEN {<<DELETE_ANNOTATION, t.delete>>} ELSE {})
        \cup (IF t.condition # "" THEN {<<CONDITION_ANNOTATION, t.condition>>} ELSE {})
        \cup (IF t.deepEquals THEN {<<DEEPEQUALS_ANNOTATION, "true">>} ELSE {})]

HasAnnotation(o, key) == \E a \in o.annotations : a[1] = key
GetAnnotation(o, key) == (CHOOSE a \in o.annotations : a[1] = key)[2]
DeleteAnnotation(o, key) ==
    [o EXCEPT !.annotations = {a \in @ : a[1] # key}]

\* shouldDelete of Reconcile: the value of the delete annotation, "false"
\* when the rendered object has none.
ShouldDelete(o) ==
    IF HasAnnotation(o, DELETE_ANNOTATION)
    THEN GetAnnotation(o, DELETE_ANNOTATION) ELSE "false"

\* A Reconcile that hides the deepEquals annotation only.
HiddenDeepEqualsOnly(o) == DeleteAnnotation(o, DEEPEQUALS_ANNOTATION)

\* The rendered object once Reconcile has hidden the delete and deepEquals
\* annotations.
Hidden(o) ==
    DeleteAnnotation(DeleteAnnotation(o, DELETE_ANNOTATION), DEEPEQUALS_ANNOTATION)

\* A reference that names the owner without making it the controller.
SetOwnerReference(owner, o) ==
    [o EXCEPT !.owners =
        {OwnerRef(<<owner.Group, owner.Version>>, owner.Kind, owner.Name, FALSE)}]

\* controllerutil.SetControllerReference on the rendered object.
SetControllerReference(owner, o) ==
    [o EXCEPT !.owners =
        {OwnerRef(<<owner.Group, owner.Version>>, owner.Kind, owner.Name, TRUE)}]

\* schema.ParseGroupVersion: "version" or "group/version", anything else is
\* an error.
ParseGroupVersion(apiVersion) ==
    IF Len(apiVersion) = 1 THEN [ok |-> TRUE, Group |-> "", Version |-> apiVersion[1]]
    ELSE IF Len(apiVersion) = 2
         THEN [ok |-> TRUE, Group |-> apiVersion[1], Version |-> apiVersion[2]]
         ELSE [ok |-> FALSE, Group |-> "", Version |-> ""]

\* A comparison of owners that ignores the group.
ReferSameKindAndName(ownerRef, o) ==
    ParseGroupVersion(ownerRef.APIVersion).ok
        /\ ownerRef.Kind = o.Kind /\ ownerRef.Name = o.Name

\* referSameObject: group, kind and name agree; the GVK of ctx.Object is
\* known to the scheme.
ReferSameObject(ownerRef, o) ==
    LET ownerGV == ParseGroupVersion(ownerRef.APIVersion) IN
    ownerGV.ok /\ ownerGV.Group = o.Group /\ ownerRef.Kind = o.Kind
        /\ ownerRef.Name = o.Name

\* metav1.GetControllerOf: the owner reference with Controller set, if any.
GetControllerOf(t) ==
    IF \E r \in t.owners : r.Controller
    THEN CHOOSE r \in t.owners : r.Controller
    ELSE NoRef

\* A lookup that takes the status of the first condition, whatever its type.
GetStatusOfAnyType(t, srcType) ==
    LET data == t.conditions IN
    IF ~data.status \/ ~data.list \/ data.items = {}
    THEN [status |-> "Unknown", ok |-> FALSE]
    ELSE [status |-> (CHOOSE c \in data.items : TRUE).status, ok |-> TRUE]

\* getStatusFromUnstructured: without "status" or without "conditions" in it
\* there is nothing to read; else the status of the condition of type srcType,
\* when it is True, False or Unknown.
GetStatusFromUnstructured(t, srcType) ==
    LET data == t.conditions
        found == {c \in data.items :
                    c.type = srcType /\ c.status \in {"True", "False", "Unknown"}}
    IN
    IF ~data.status THEN [status |-> "Unknown", ok |-> FALSE]
    ELSE IF ~data.list THEN [status |-> "Unknown", ok |-> FALSE]
    ELSE IF found # {} THEN [status |-> (CHOOSE c \in found : TRUE).status, ok |-> TRUE]
    ELSE [status |-> "Unknown", ok |-> FALSE]

\* The API server takes the apply unless it would give the target a second
\* controller.
CanApply(t, o) ==
    \A r \in t.owners : r.Controller => ReferSameObject(r, Owner)

\* A write that replaces the whole object by what was sent.
Replace(t, o, m) ==
    [exists |-> TRUE,
     fields |-> [f \in Fields |->
        IF f \in DOMAIN o.fields THEN o.fields[f] ELSE Absent],
     managers |-> [f \in Fields |-> IF f \in DOMAIN o.fields THEN {m} ELSE {}],
     owners |-> o.owners,
     annotations |-> o.annotations,
     conditions |-> t.conditions]

\* client.Patch with client.Apply and Force, as field manager m: every
\* applied field takes the applied value and m owns it (alone when the value
\* changed); a field m owned alone and no longer applies is removed; every
\* other field is left as it is.  The applied owner reference replaces the
\* references to the same object.
Apply(t, o, m) ==
    [exists |-> TRUE,
     fields |-> [f \in Fields |->
        IF f \in DOMAIN o.fields THEN o.fields[f]
        ELSE IF t.managers[f] = {m} THEN Absent ELSE t.fields[f]],
     managers |-> [f \in Fields |->
        IF f \in DOMAIN o.fields
        THEN IF t.fields[f] = o.fields[f] THEN t.managers[f] \cup {m} ELSE {m}
        ELSE t.managers[f] \ {m}],
     owners |-> {r \in t.owners : ~ReferSameObject(r, Owner)} \cup o.owners,
     annotations |-> o.annotations,
     conditions |-> t.conditions]

\* No call of the component is on record.
NoCondSet == [Status |-> "", Reason |-> ""]

NoLast == [op |-> "none", before |-> NoTarget, get |-> "", del |-> "", patch |-> "",
           err |-> "", cond |-> NoCondSet, repeat |-> FALSE]

\* History of a call: the target it found, how the API server answered its
\* Get, Delete and Patch ("" when it sent none), the error it returned ("" for
\* nil), the condition it set, and whether it is the second of two successful
\* calls of reconcileCreate in a row.
Call(op, get, del, patch, e, cond) ==
    last' = [op |-> op, before |-> target, get |-> get, del |-> del,
             patch |-> patch, err |-> e, cond |-> cond,
             repeat |-> op = "create" /\ e = "" /\ last.op = "create" /\ last.err = ""]

\* ctx.Conditions.Setf and its kin, when the component has a conditionType.
SetfCondition(status, reason) ==
    IF templ.conditionType # "" THEN [Status |-> status, Reason |-> reason]
    ELSE NoCondSet

\* The condition reconcileCreate sets from the current object: the upstream
\* condition the condition annotation names, Unknown when it is not there,
\* nothing without the annotation.
UpstreamStatus(o, currentObj) ==
    IF HasAnnotation(o, CONDITION_ANNOTATION)
    THEN LET got == GetStatusFromUnstructured(currentObj,
                        GetAnnotation(o, CONDITION_ANNOTATION)) IN
         IF got.ok THEN SetfCondition(got.status, "UpstreamConditionSet")
         ELSE SetfCondition("Unknown", "UpstreamConditionNotSet")
    ELSE NoCondSet

\* A reconcileDelete that takes a NotFound answer to its Delete for an error.
ReconcileDeleteStrict(o) ==
    \/ /\ ~target.exists
       /\ Call("delete", "notfound", "", "", "", SetfCondition("True", "UpstreamDoesNotExist"))
       /\ UNCHANGED target
    \/ /\ Call("delete", "error", "", "", "error getting current object for owner", NoCondSet)
       /\ UNCHANGED target
    \/ /\ target.exists
       /\ LET controllerRef == GetControllerOf(target) IN
          IF controllerRef = NoRef \/ ~ReferSameObject(controllerRef, Owner)
          THEN /\ Call("delete", "ok", "", "", "", SetfCondition("True", "UpstreamNotOwned"))
               /\ UNCHANGED target
          ELSE \/ /\ Call("delete", "ok", "ok", "", "", SetfCondition("True", "UpstreamDoesNotExist"))
                  /\ target' = NoTarget
               \/ /\ Call("delete", "ok", "notfound", "", "error deleting", NoCondSet)
                  /\ target' = NoTarget
               \/ /\ Call("delete", "ok", "error", "", "error deleting", NoCondSet)
                  /\ UNCHANGED target

\* reconcileDelete: fetch the current object; leave it alone when it is gone
\* or not controlled by ctx.Object; else delete it in the background.  A
\* NotFound answer to the Delete means someone else removed it meanwhile.
ReconcileDelete(o) ==
    \/ /\ ~target.exists
       /\ Call("delete", "notfound", "", "", "", SetfCondition("True", "UpstreamDoesNotExist"))
       /\ UNCHANGED target
    \/ /\ Call("delete", "error", "", "", "error getting current object for owner", NoCondSet)
       /\ UNCHANGED target
    \/ /\ target.exists
       /\ LET controllerRef == GetControllerOf(target) IN
          IF controllerRef = NoRef \/ ~ReferSameObject(controllerRef, Owner)
          THEN /\ Call("delete", "ok", "", "", "", SetfCondition("True", "UpstreamNotOwned"))
               /\ UNCHANGED target
          ELSE \/ /\ Call("delete", "ok", "ok", "", "", SetfCondition("True", "UpstreamDoesNotExist"))
                  /\ target' = NoTarget
               \/ /\ Call("delete", "ok", "notfound", "", "", SetfCondition("True", "UpstreamDoesNotExist"))
                  /\ target' = NoTarget
               \/ /\ Call("delete", "ok", "error", "", "error deleting", NoCondSet)
                  /\ UNCHANGED target

\* reconcileCreate: set the controller reference, apply the object, and with
\* a conditionType fetch the object back and mirror the upstream condition.
ReconcileCreate(o) ==
    LET owned == SetControllerReference(Owner, o) IN
    \/ /\ Call("create", "", "", "", "error setting owner reference", NoCondSet)
       /\ UNCHANGED target
    \/ /\ Call("create", "", "", "error", "error applying object", NoCondSet)
       /\ UNCHANGED target
    \/ /\ CanApply(target, owned)
       /\ target' = Apply(target, owned, FieldManager)
       /\ IF templ.conditionType = ""
          THEN Call("create", "", "", "ok", "", NoCondSet)
          ELSE \/ Call("create", "error", "", "ok",
                       "error getting current object for status", NoCondSet)
               \/ Call("create", "ok", "", "ok", "", UpstreamStatus(o, target'))

\* templateComponent.Reconcile fails to render its template.
TemplateRenderError ==
    /\ Call("render", "", "", "", "error rendering template", NoCondSet)
    /\ UNCHANGED <<exceptTemplate, templ, target>>

\* templateComponent.Reconcile with the delete annotation set to "true".
TemplateDelete ==
    LET o == RenderTemplate(templ) IN
    /\ ShouldDelete(o) = "true"
    /\ ReconcileDelete(Hidden(o))
    /\ UNCHANGED <<exceptTemplate, templ>>

\* templateComponent.Reconcile without it.
TemplateCreate ==
    LET o == RenderTemplate(templ) IN
    /\ ShouldDelete(o) # "true"
    /\ ReconcileCreate(Hidden(o))
    /\ UNCHANGED <<exceptTemplate, templ>>

\* Something else touches the target; the record of the latest call lapses.
Touched ==
    /\ last' = NoLast
    /\ UNCHANGED <<exceptTemplate, templ>>

\* Another writer creates the target, bare or with every field set.
TargetCreate ==
    /\ ~target.exists
    /\ \E fs \in {[f \in Fields |-> Absent], [f \in Fields |-> "y"]},
          owners \in {{}} \cup {{r} : r \in OwnerRefs} :
          target' = [exists |-> TRUE, fields |-> fs,
                     managers |-> [f \in Fields |->
                                    IF fs[f] = Absent THEN {} ELSE {"other"}],
                     owners |-> owners, annotations |-> {}, conditions |-> NoStatus]
    /\ Touched

\* Another writer sets or removes a field of the target.
TargetWrite ==
    /\ target.exists
    /\ \E f \in Fields, v \in Values \cup {Absent} :
          /\ v # target.fields[f]
          /\ target' = [target EXCEPT !.fields[f] = v,
                            !.managers[f] = IF v = Absent THEN {} ELSE {"other"}]
    /\ Touched

\* The controller of the target reports its status.
TargetStatus ==
    /\ target.exists
    /\ \E cs \in UpstreamConditions :
          /\ cs # target.conditions
          /\ target' = [target EXCEPT !.conditions = cs]
    /\ Touched

\* Another writer deletes the target.
TargetDelete ==
    /\ target.exists
    /\ target' = NoTarget
    /\ Touched

\* The templates whose delete annotation depends on ctx.Object or ctx.Data.
Conditional(t) == t.conditionType # "" /\ t.condition = ""

\* ctx.Object or ctx.Data changes between two passes, and with it the delete
\* annotation the template renders for the same target.  The record of a
\* call of reconcileCreate is kept as that of an earlier rendering.
Rerender ==
    /\ Conditional(templ)
    /\ \E directive \in {"", "true", "false"} :
          /\ directive # templ.delete
          /\ templ' = [templ EXCEPT !.delete = directive]
    /\ last' = IF last.op = "create" THEN [last EXCEPT !.op = "applied"] ELSE last
    /\ UNCHANGED <<exceptTemplate, target>>

NextTemplate ==
    \/ Rerender
    \/ TemplateRenderError
    \/ TemplateDelete
    \/ TemplateCreate
    \/ TargetCreate
    \/ TargetWrite
    \/ TargetStatus
    \/ TargetDelete

(***************************************************************************)
(* The ready status component (components/ready_status.go).                *)
(***************************************************************************)
\* Most keys a ready status component is created with.
MaxKeys == 2

\* The condition types the keys may name. A name is a sequence of tokens, so
\* that a prefix can be tested and cut off.
ReadyTypes == {<<"One">>, <<"Two">>, <<"Three">>}

ConditionStatuses == {"True", "False", "Unknown"}

\* The keys a caller may pass: a type, or a type behind "-".
ReadyKeys == ReadyTypes \cup {<<"-">> \o t : t \in ReadyTypes}

\* strings.HasPrefix(key, "-")
HasPrefix(key) == Len(key) > 0 /\ key[1] = "-"

\* The condition type a key names: key[1:] behind the prefix, else the key.
KeyType(key) == IF HasPrefix(key) THEN Tail(key) ELSE key

\* The status a key asks for.
KeyTarget(key) == IF HasPrefix(key) THEN "False" ELSE "True"

\* The key lists the model creates components with: up to MaxKeys keys, each
\* condition type named by at most one of them.
KeyLists ==
    {ks \in UNION {[1..n -> ReadyKeys] : n \in 0..MaxKeys} :
        \A i, j \in DOMAIN ks : i # j => KeyType(ks[i]) # KeyType(ks[j])}

\* NewReadyStatusComponent with every key asking for True, prefix or not.
NewReadyStatusComponentAllTrue(keys) ==
    [keys |-> keys,
     readyConditions |-> [t \in {KeyType(keys[i]) : i \in DOMAIN keys} |-> "True"]]

\* NewReadyStatusComponent: the keys are parsed into the map readyConditions,
\* in order, so the last key that names a type decides its desired status.
NewReadyStatusComponent(keys) ==
    [keys |-> keys,
     readyConditions |->
        [t \in {KeyType(keys[i]) : i \in DOMAIN keys} |->
            LET at == {i \in DOMAIN keys : KeyType(keys[i]) = t}
                n  == CHOOSE i \in at : \A j \in at : j <= i
            IN KeyTarget(keys[n])]]

\* The conditions an object may carry: at most one per type.
ObjConditions ==
    {cs \in SUBSET [type : ReadyTypes, status : ConditionStatuses] :
        \A c, e \in cs : c.type = e.type => c = e}

\* conditions.IsStatusConditionPresentAndEqual
IsStatusConditionPresentAndEqual(conds, conditionType, status) ==
    \E c \in conds : c.type = conditionType /\ c.status = status

\* strings.Join(keys, sep), token by token.
RECURSIVE Join(_, _)
Join(keys, sep) ==
    IF keys = <<>> THEN <<>>
    ELSE IF Len(keys) = 1 THEN keys[1]
    ELSE keys[1] \o <<sep>> \o Join(Tail(keys), sep)

NoReadySet == [Type |-> "", Status |-> "", Reason |-> "", Message |-> <<>>]

\* readyStatusComponent.Reconcile: what it passes to ctx.Conditions.Setf. The
\* loop over the map stops at the first type that is not as desired; whichever
\* order the map is walked in, the outcome is the same.
ReadyReconcile(comp, conds) ==
    LET unmet == \E t \in DOMAIN comp.readyConditions :
                    ~IsStatusConditionPresentAndEqual(conds, t, comp.readyConditions[t])
        status  == IF unmet THEN "False" ELSE "True"
        reason  == IF unmet THEN "CompositeNotRead" ELSE "CompositeReady"
        message == IF unmet THEN "did not observe" ELSE "observed"
    IN [Type |-> "Ready", Status |-> status, Reason |-> reason,
        Message |-> <<"ReadyStatusComponent", message, "correct status of",
                      Join(comp.keys, ", ")>>]

\* The ready status component before its first call, created with one of the
\* key lists kss, on an object without conditions.
ReadyInit(kss) ==
    /\ readyComp \in {NewReadyStatusComponent(ks) : ks \in kss}
    /\ readyObj = {}
    /\ readySet = NoReadySet

\* The engine calls Reconcile of the component.
ReadyStatusReconcile ==
    /\ readySet' = ReadyReconcile(readyComp, readyObj)
    /\ UNCHANGED <<exceptReady, readyComp, readyObj>>

\* Another component or writer sets a condition of the object.
ObjectConditionSet ==
    /\ \E t \in ReadyTypes, st \in ConditionStatuses :
          /\ [type |-> t, status |-> st] \notin readyObj
          /\ readyObj' = {c \in readyObj : c.type # t} \cup {[type |-> t, status |-> st]}
    /\ readySet' = NoReadySet
    /\ UNCHANGED <<exceptReady, readyComp>>

\* Another writer removes a condition of the object.
ObjectConditionRemove ==
    /\ \E c \in readyObj : readyObj' = readyObj \ {c}
    /\ readySet' = NoReadySet
    /\ UNCHANGED <<exceptReady, readyComp>>

NextReady ==
    \/ ReadyStatusReconcile
    \/ ObjectConditionSet
    \/ ObjectConditionRemove

(***************************************************************************)
(* The random secret component (components/random_secret.go).              *)
(***************************************************************************)
\* Number of raw random bytes behind a generated value.
RANDOM_BYTES == 32

\* Most keys a random secret component is created with.
MaxSecretKeys == 2

\* Number of distinct outcomes of the random source the model tells apart.
MaxRandom == 2

\* The keys a component may be configured with, and a key no component has.
ConfigurableKeys == {"password", "token"}

SecretKeys == ConfigurableKeys \cup {"other"}

\* base64 Encoding.EncodedLen of an encoding without padding.
EncodedLen(n) == (n \div 3) * 4 + ((n % 3) * 8 + 5) \div 6

\* randstring.RandomBytes: size raw bytes, r being what rand.Read produced,
\* encoded with RandEncoding. A value is its length and its content.
RandomBytes(size, r) == [len |-> EncodedLen(size), bytes |-> r]

EmptyValue == [len |-> 0, bytes |-> 0]

\* The values a writer other than the component stores: empty, or one of its
\* own.
WrittenValues == {EmptyValue, [len |-> 1, bytes |-> 0]}

\* The set of elements of a sequence.
Range(seq) == {seq[i] : i \in DOMAIN seq}

\* NewRandomSecretComponent: without keys, the key "password".
NewRandomSecretComponent(keys) ==
    [keys |-> IF Len(keys) = 0 THEN <<"password">> ELSE keys, args |-> keys]

\* A data map without keys.
NoData == [k \in {} |-> EmptyValue]

\* No Secret of the name exists. data maps the keys present to their values;
\* managed holds the keys the component's field manager owns.
NoSecret == [exists |-> FALSE, data |-> NoData, managed |-> {}, type |-> "",
             controlled |-> FALSE]

\* The test of the loop that ignores an empty value, and generates for an
\* absent key only.
NeedsValueIfAbsent(data, key) == key \notin DOMAIN data

\* The test of the loop: the key has no value, or an empty one.
NeedsValue(data, key) ==
    IF key \notin DOMAIN data THEN TRUE ELSE data[key].len = 0

\* The keys Reconcile generates a value for.
Needed(comp, data) == {k \in Range(comp.keys) : NeedsValue(data, k)}

\* changed, as if every call had generated something.
ChangedAlways(comp, data) == TRUE

\* changed: some key got a generated value.
Changed(comp, data) == Needed(comp, data) # {}

\* The map data Reconcile builds, rnd being the outcome of the random source
\* per key: a generated value for a key that needs one, else the value read.
SecretData(comp, data, rnd) ==
    [k \in Range(comp.keys) |->
        IF NeedsValue(data, k) THEN RandomBytes(RANDOM_BYTES, rnd[k]) ELSE data[k]]

\* A write that replaces the whole data of the Secret by the map sent.
ReplaceSecret(s, data) ==
    [exists |-> TRUE, data |-> data, managed |-> DOMAIN data, type |-> "Opaque",
     controlled |-> TRUE]

\* Client.Patch(client.Apply) with Force and the component's field manager:
\* the keys sent are set and become the manager's; a key the manager owned
\* and no longer sends is removed; every other key stays as it is.
ApplySecret(s, data) ==
    LET kept == DOMAIN s.data \ (s.managed \ DOMAIN data)
    IN [exists |-> TRUE,
        data |-> [k \in kept \cup DOMAIN data |->
                    IF k \in DOMAIN data THEN data[k] ELSE s.data[k]],
        managed |-> DOMAIN data, type |-> "Opaque", controlled |-> TRUE]

NoSecretLast == [op |-> "none", err |-> "", before |-> NoData, data |-> NoData,
                 patched |-> FALSE]

\* The random secret component before its first call, created with one of
\* the key lists kss; the Secret does not exist yet.
SecretInit(kss) ==
    /\ secretComp \in {NewRandomSecretComponent(ks) : ks \in kss}
    /\ secret = NoSecret
    /\ secretLast = NoSecretLast

\* The key lists the model creates components with.
SecretKeyLists == UNION {[1..n -> ConfigurableKeys] : n \in 0..MaxSecretKeys}

\* What a call leaves in the history: its error, the data it read, ctx.Data
\* and whether it sent a Patch.
SecretCall(e, before, data, patch) ==
    [op |-> "reconcile", err |-> e, before |-> before, data |-> data,
     patched |-> patch]

\* randomSecretComponent.Reconcile: the Get fails with an error other than
\* NotFound.
RandomSecretGetError ==
    /\ secretLast' = SecretCall("error getting secret", NoData, NoData, FALSE)
    /\ UNCHANGED <<exceptSecret, secretComp, secret>>

\* randomSecretComponent.Reconcile: the random source fails at the first key
\* that needs a value; the keys before it are in ctx.Data already.
RandomSecretRandomError ==
    /\ \E i \in DOMAIN secretComp.keys :
          /\ NeedsValue(secret.data, secretComp.keys[i])
          /\ \A j \in 1..(i - 1) : ~NeedsValue(secret.data, secretComp.keys[j])
          /\ secretLast' = SecretCall("error generating random bytes", secret.data,
                [k \in {secretComp.keys[j] : j \in 1..(i - 1)} |-> secret.data[k]],
                FALSE)
    /\ UNCHANGED <<exceptSecret, secretComp, secret>>

\* randomSecretComponent.Reconcile: values were generated and the Patch fails.
RandomSecretPatchError ==
    /\ Changed(secretComp, secret.data)
    /\ \E rnd \in [ConfigurableKeys -> 1..MaxRandom] :
          secretLast' = SecretCall("error applying secret", secret.data,
                            SecretData(secretComp, secret.data, rnd), TRUE)
    /\ UNCHANGED <<exceptSecret, secretComp, secret>>

\* randomSecretComponent.Reconcile, succeeding: the Secret is read (a Secret
\* that is not found reads as one without data), every configured key without
\* a value gets a generated one, every value goes to ctx.Data, and the map is
\* applied if something was generated.
RandomSecretReconcile ==
    /\ \E rnd \in [ConfigurableKeys -> 1..MaxRandom] :
          LET data == SecretData(secretComp, secret.data, rnd)
              changed == Changed(secretComp, secret.data)
          IN /\ secret' = IF changed THEN ApplySecret(secret, data) ELSE secret
             /\ secretLast' = SecretCall("", secret.data, data, changed)
    /\ UNCHANGED <<exceptSecret, secretComp>>

\* Another writer has acted on the Secret: the history of the component's
\* call no longer describes it.
SecretTouched ==
    /\ secretLast' = NoSecretLast
    /\ UNCHANGED <<exceptSecret, secretComp>>

\* Another writer creates the Secret, or sets one of its keys.
SecretWrite ==
    /\ \E k \in SecretKeys, v \in WrittenValues :
          /\ IF k \in DOMAIN secret.data THEN secret.data[k] # v ELSE TRUE
          /\ secret' = [secret EXCEPT
                !.exists = TRUE,
                !.type = "Opaque",
                !.data = [x \in DOMAIN secret.data \cup {k} |->
                            IF x = k THEN v ELSE secret.data[x]],
                !.managed = @ \ {k}]
    /\ SecretTouched

\* Another writer removes a key of the Secret.
SecretRemoveKey ==
    /\ \E k \in DOMAIN secret.data :
          secret' = [secret EXCEPT
                !.data = [x \in DOMAIN secret.data \ {k} |-> secret.data[x]],
                !.managed = @ \ {k}]
    /\ SecretTouched

\* The Secret is deleted.
SecretDelete ==
    /\ secret.exists
    /\ secret' = NoSecret
    /\ SecretTouched

NextSecret ==
    \/ RandomSecretGetError
    \/ RandomSecretRandomError
    \/ RandomSecretPatchError
    \/ RandomSecretReconcile
    \/ SecretWrite
    \/ SecretRemoveKey
    \/ SecretDelete

(***************************************************************************)
(* The event predicates (predicates/deep_equals.go and                     *)
(* predicates/secret_field.go).                                            *)
(***************************************************************************)
\* The keys a payload may hold, and the raw values under them.
PayloadKeys == {"password", "other"}

\* A value of a payload: raw bytes, or a string that is the base64 encoding
\* of bytes, or a string that is no base64 encoding at all.
Raw(bytes) == [enc |-> "raw", bytes |-> bytes]

RawValues == {Raw(""), Raw("x")}

\* base64.StdEncoding of a raw value, as an unstructured object carries it.
EncodeString(raw) == [enc |-> "base64", bytes |-> raw.bytes]

\* A string that is not base64.
Corrupted == [enc |-> "corrupted", bytes |-> ""]

\* base64.StdEncoding.DecodeString: the raw value, or an error.
DecodeString(str) ==
    IF str.enc = "base64" THEN [err |-> FALSE, raw |-> Raw(str.bytes)]
    ELSE [err |-> TRUE, raw |-> Raw("")]

\* All maps from some of the keys ks to values of vs.
Maps(ks, vs) == UNION {[d -> vs] : d \in SUBSET ks}

\* The metadata the API server rewrites on every write.
Volatile ==
    [generation : {1, 2}, resourceVersion : {"1", "2"},
     managedFields : {<<>>, <<"manager">>}]

SecretGVK == [Group |-> "", Kind |-> "Secret"]

\* An object of an event. form is its Go type; hasData and data are the
\* field data (raw bytes in a typed Secret, strings in an Unstructured).
Object(form, gvk, meta, hasData, data) ==
    [form |-> form, gvk |-> gvk, generation |-> meta.generation,
     resourceVersion |-> meta.resourceVersion,
     managedFields |-> meta.managedFields, hasData |-> hasData, data |-> data]

FirstMeta == [generation |-> 1, resourceVersion |-> "1", managedFields |-> <<>>]

NoPayload == [k \in {} |-> Raw("")]

\* Typed Secrets under every volatile metadata, with a password or without.
VolatileObjects ==
    {Object("Secret", SecretGVK, m, TRUE, d) :
        m \in Volatile, d \in Maps({"password"}, {Raw("x")})}

\* Objects of every form and payload: typed Secrets, another typed kind,
\* Unstructured Secrets with and without data (a value being base64 or not),
\* and Unstructured objects of other kinds.
PayloadObjects ==
    {Object("Secret", SecretGVK, FirstMeta, TRUE, d) : d \in Maps(PayloadKeys, RawValues)}
    \cup {Object("ConfigMap", [Group |-> "", Kind |-> "ConfigMap"], FirstMeta, FALSE,
                 NoPayload)}
    \cup {Object("Unstructured", SecretGVK, FirstMeta, TRUE, d) :
            d \in Maps(PayloadKeys, {EncodeString(r) : r \in RawValues} \cup {Corrupted})}
    \cup {Object("Unstructured", g, FirstMeta, FALSE, NoPayload) :
            g \in {SecretGVK, [Group |-> "", Kind |-> "ConfigMap"],
                   [Group |-> "example.com", Kind |-> "Secret"]}}

NoObject == Object("", [Group |-> "", Kind |-> ""], FirstMeta, FALSE, NoPayload)

\* The events of the model: updates between two objects of one of the two
\* families, and create, delete and generic events of one object.
Events ==
    {[type |-> "update", old |-> o, new |-> n] :
        o \in VolatileObjects, n \in VolatileObjects}
    \cup {[type |-> "update", old |-> o, new |-> n] :
        o \in PayloadObjects, n \in PayloadObjects}
    \cup {[type |-> t, old |-> NoObject, new |-> n] :
        t \in {"create", "delete", "generic"}, n \in PayloadObjects}

\* The key lists a secretFieldPredicate is created with.
PredicateKeyLists == {<<>>, <<"password">>, <<"password", "other">>}

\* SecretField
SecretField(keys) == [keys |-> keys]

\* The copies Update compares, had it cleared the generation only.
CleanGenerationOnly(o) == [o EXCEPT !.generation = 0]

\* The copy of an object Update compares: generation, resource version and
\* managed fields cleared.
Clean(o) ==
    [o EXCEPT !.generation = 0, !.resourceVersion = "", !.managedFields = <<>>]

\* deepEqualsPredicate.Update
DeepEqualsUpdate(e) == Clean(e.new) # Clean(e.old)

\* secretFieldPredicate.secretData: the data of a typed Secret as it is; the
\* data of an Unstructured Secret decoded value by value, with a panic on a
\* value that does not decode; nothing (ok false) for anything else.
SecretDataOf(o) ==
    IF o.form = "Secret" THEN [ok |-> TRUE, panic |-> FALSE, data |-> o.data]
    ELSE IF /\ o.form = "Unstructured"
            /\ o.gvk.Group = "" /\ o.gvk.Kind = "Secret"
            /\ o.hasData
    THEN IF \E k \in DOMAIN o.data : DecodeString(o.data[k]).err
         THEN [ok |-> FALSE, panic |-> TRUE, data |-> NoPayload]
         ELSE [ok |-> TRUE, panic |-> FALSE,
               data |-> [k \in DOMAIN o.data |-> DecodeString(o.data[k]).raw]]
    ELSE [ok |-> FALSE, panic |-> FALSE, data |-> NoPayload]

\* The comparison of Update, had it looked only at keys both payloads hold.
KeyDiffersInValue(oldData, newData, key) ==
    IF key \in DOMAIN oldData /\ key \in DOMAIN newData
    THEN oldData[key] # newData[key]
    ELSE FALSE

\* The comparison of Update for one key: oldOk != newOk, or the values are
\* not equal (two absent values are equal).
KeyDiffers(oldData, newData, key) ==
    IF (key \in DOMAIN oldData) # (key \in DOMAIN newData) THEN TRUE
    ELSE IF key \in DOMAIN oldData THEN oldData[key] # newData[key]
    ELSE FALSE

\* secretFieldPredicate.Update: "true", "false", or "panic". The new object
\* is read only if the old one was readable.
SecretFieldUpdate(p, e) ==
    LET old == SecretDataOf(e.old)
        new == SecretDataOf(e.new)
    IN IF old.panic THEN "panic"
       ELSE IF ~old.ok THEN "true"
       ELSE IF new.panic THEN "panic"
       ELSE IF ~new.ok THEN "true"
       ELSE IF \E i \in DOMAIN p.keys : KeyDiffers(old.data, new.data, p.keys[i])
            THEN "true"
       ELSE "false"

NoVerdict == [by |-> "", on |-> "", result |-> ""]

Verdict(by, on, res) == [by |-> by, on |-> on, result |-> res]

\* The predicates before an event is handled.
PredicatesInit(kss, es) ==
    /\ secretField \in {SecretField(ks) : ks \in kss}
    /\ evt \in es
    /\ verdict = NoVerdict

\* deepEqualsPredicate.Create
DeepEqualsCreate ==
    /\ evt.type = "create"
    /\ verdict' = Verdict("deepEquals", "create", "true")
    /\ UNCHANGED <<exceptPredicates, secretField, evt>>

\* deepEqualsPredicate.Delete
DeepEqualsDelete ==
    /\ evt.type = "delete"
    /\ verdict' = Verdict("deepEquals", "delete", "true")
    /\ UNCHANGED <<exceptPredicates, secretField, evt>>

\* deepEqualsPredicate.Update on the event
DeepEqualsUpdateEvent ==
    /\ evt.type = "update"
    /\ verdict' = Verdict("deepEquals", "update", IF DeepEqualsUpdate(evt) THEN "true" ELSE "false")
    /\ UNCHANGED <<exceptPredicates, secretField, evt>>

\* deepEqualsPredicate.Generic
DeepEqualsGeneric ==
    /\ evt.type = "generic"
    /\ verdict' = Verdict("deepEquals", "generic", "true")
    /\ UNCHANGED <<exceptPredicates, secretField, evt>>

\* secretFieldPredicate.Create
SecretFieldCreate ==
    /\ evt.type = "create"
    /\ verdict' = Verdict("secretField", "create", "true")
    /\ UNCHANGED <<exceptPredicates, secretField, evt>>

\* secretFieldPredicate.Delete
SecretFieldDelete ==
    /\ evt.type = "delete"
    /\ verdict' = Verdict("secretField", "delete", "true")
    /\ UNCHANGED <<exceptPredicates, secretField, evt>>

\* secretFieldPredicate.Update on the event
SecretFieldUpdateEvent ==
    /\ evt.type = "update"
    /\ verdict' = Verdict("secretField", "update", SecretFieldUpdate(secretField, evt))
    /\ UNCHANGED <<exceptPredicates, secretField, evt>>

\* secretFieldPredicate.Generic
SecretFieldGeneric ==
    /\ evt.type = "generic"
    /\ verdict' = Verdict("secretField", "generic", "true")
    /\ UNCHANGED <<exceptPredicates, secretField, evt>>

NextPredicates ==
    \/ DeepEqualsCreate
    \/ DeepEqualsDelete
    \/ DeepEqualsUpdateEvent
    \/ DeepEqualsGeneric
    \/ SecretFieldCreate
    \/ SecretFieldDelete
    \/ SecretFieldUpdateEvent
    \/ SecretFieldGeneric

(***************************************************************************)
(* The conditions helper on its own: Sets and Flushes on one object whose  *)
(* condition list is kept as the list it is, an entry per element.         *)
(***************************************************************************)
\* The condition types, statuses, reasons and messages the callers pass.
LedgerTypes == {CondType(1), CondType(2)}

LedgerStatuses == {"True", "False", "Unknown"}

LedgerReasons == {"Ready", "Error"}

\* The reason and message of one call.
LedgerTexts == {[reason |-> "Ready", message |-> 0], [reason |-> "Error", message |-> 1]}

\* The element of the condition list made from a buffered condition.
Entry(conditionType, cond) ==
    [Type |-> conditionType, Status |-> cond.Status, Reason |-> cond.Reason,
     Message |-> cond.Message, ObservedGeneration |-> cond.ObservedGeneration]

\* conditions.SetStatusCondition on the list: the entry of the type takes the
\* new values where it is, and a type the list does not hold is appended.
SetStatusConditionInList(list, entry) ==
    IF \E n \in DOMAIN list : list[n].Type = entry.Type
    THEN [n \in DOMAIN list |-> IF list[n].Type = entry.Type THEN entry ELSE list[n]]
    ELSE Append(list, entry)

\* The orders in which a range over a map with the keys S may visit them.
Orders(S) ==
    {order \in [1..Cardinality(S) -> S] :
        \A i, j \in 1..Cardinality(S) : order[i] = order[j] => i = j}

\* The loop of Flush over pendingConditions, visiting the types in order.
RECURSIVE ApplyPending(_, _, _)
ApplyPending(list, pend, order) ==
    IF order = <<>> THEN list
    ELSE ApplyPending(SetStatusConditionInList(list, Entry(Head(order), pend[Head(order)])),
                      pend, Tail(order))

NoWrite == [Status |-> "None", Reason |-> "", Message |-> 0]

NoWrites == [t \in LedgerTypes |-> NoWrite]

\* NewConditionsHelper on an object without conditions.
LedgerInit ==
    /\ helper = [conditions |-> <<>>, generation |-> 1, pending |-> EmptyConds]
    /\ helperHist = [op |-> "none", written |-> NoWrites, before |-> <<>>,
                     prior |-> <<>>,
                     overwrote |-> FALSE, again |-> FALSE]

\* History of a Set of the values status, reason, message for conditionType.
Wrote(conditionType, status, reason, message) ==
    LET fresh == helperHist.op = "flush"
        sofar == IF fresh THEN NoWrites ELSE helperHist.written
        value == [Status |-> status, Reason |-> reason, Message |-> message]
    IN helperHist' =
          [op |-> "set",
           written |-> [sofar EXCEPT ![conditionType] = value],
           before |-> IF fresh THEN helper.conditions ELSE helperHist.before,
           prior |-> helper.conditions,
           overwrote |-> \/ ~fresh /\ helperHist.overwrote
                         \/ sofar[conditionType] \notin {NoWrite, value},
           again |-> FALSE]

HelperSet ==
    /\ \E t \in LedgerTypes, status \in LedgerStatuses, text \in LedgerTexts :
          /\ helper' = [helper EXCEPT
                !.pending = Set(@, helper, t, status, text.reason, text.message)]
          /\ Wrote(t, status, text.reason, text.message)
    /\ UNCHANGED exceptLedger

HelperSetTrue ==
    /\ \E t \in LedgerTypes, text \in LedgerTexts :
          /\ helper' = [helper EXCEPT
                !.pending = ConditionsSetTrue(@, helper, t, text.reason, text.message)]
          /\ Wrote(t, "True", text.reason, text.message)
    /\ UNCHANGED exceptLedger

HelperSetFalse ==
    /\ \E t \in LedgerTypes, text \in LedgerTexts :
          /\ helper' = [helper EXCEPT
                !.pending = ConditionsSetFalse(@, helper, t, text.reason, text.message)]
          /\ Wrote(t, "False", text.reason, text.message)
    /\ UNCHANGED exceptLedger

HelperSetUnknown ==
    /\ \E t \in LedgerTypes, reason \in LedgerReasons :
          /\ helper' = [helper EXCEPT !.pending = SetUnknown(@, helper, t, reason)]
          /\ Wrote(t, "Unknown", reason, 0)
    /\ UNCHANGED exceptLedger

\* conditionsHelper.Flush: every buffered condition goes into the list, in
\* the order the range over the map happens to take, and the buffer is zeroed.
HelperFlush ==
    /\ \E order \in Orders({t \in CondTypes : helper.pending[t] # NoCond}) :
          helper' = [helper EXCEPT
                        !.conditions = ApplyPending(@, helper.pending, order),
                        !.pending = EmptyConds]
    /\ helperHist' = [helperHist EXCEPT
                        !.op = "flush",
                        !.prior = helper.conditions,
                        !.again = helperHist.op = "flush"]
    /\ UNCHANGED exceptLedger

NextLedger ==
    \/ HelperSet
    \/ HelperSetTrue
    \/ HelperSetFalse
    \/ HelperSetUnknown
    \/ HelperFlush

(***************************************************************************)
(* ContextData on its own: a map from keys to values of any type, written  *)
(* by components and read with GetString.                                  *)
(***************************************************************************)
DataKeys == {"key", "password"}

\* No value: what a key that is not in the map stands for in this model.
NoValue == [type |-> "missing", v |-> ""]

\* The nil interface value a lookup of a key that is not in the map yields.
NilValue == [type |-> "nil", v |-> ""]

\* The values components store: strings, and values of another type.
DataValues ==
    {[type |-> "string", v |-> ""], [type |-> "string", v |-> "x"],
     [type |-> "int", v |-> "1"]}

NoValues == [k \in DataKeys |-> NoValue]

NoFetched == [op |-> "none", key |-> "", had |-> NoValue, s |-> "", ok |-> FALSE,
          panic |-> FALSE]

\* val, ok := d[key]
Lookup(d, key) ==
    IF d[key] = NoValue THEN [val |-> NilValue, ok |-> FALSE]
    ELSE [val |-> d[key], ok |-> TRUE]

\* val.(string): the one-value form panics where the dynamic type of val is
\* not string, and the nil interface value has none.
StringAssertion(val) ==
    IF val.type = "string" THEN [s |-> val.v, panic |-> FALSE]
    ELSE [s |-> "", panic |-> TRUE]

\* ContextData.GetString
GetString(d, key) ==
    LET found == Lookup(d, key)
        str == StringAssertion(found.val)
    IN [s |-> str.s, ok |-> found.ok, panic |-> str.panic]

\* A ContextData map with one of the contents maps.
DataInit(maps) ==
    /\ shared \in maps
    /\ fetched = NoFetched

\* ctx.Data[key] = value, as a component does.
DataStore ==
    /\ \E k \in DataKeys, value \in DataValues :
          shared' = [shared EXCEPT ![k] = value]
    /\ UNCHANGED <<fetched, exceptData>>

DataGetString ==
    /\ \E k \in DataKeys :
          LET out == GetString(shared, k) IN
          fetched' = [op |-> "GetString", key |-> k, had |-> shared[k], s |-> out.s,
                  ok |-> out.ok, panic |-> out.panic]
    /\ UNCHANGED <<shared, exceptData>>

NextData ==
    \/ DataStore
    \/ DataGetString

(***************************************************************************)
(* The filtered template filesystem on its own: a chain of Include and     *)
(* Exclude filters over one directory.  Names and globs are sequences of   *)
(* characters.                                                             *)
(***************************************************************************)
\* The names the entries of the directory may have.
EntryNames == {<<"a">>, <<"a", "b">>, <<"b">>}

\* The globs callers filter with; the last one is malformed.
Globs == {<<"a", "*">>, <<"*", "b">>, <<"[">>}

MaxFilters == 2

Root == <<"/">>

\* The names callers open: the root, the empty name, and a path per name.
OpenNames == {<<>>, Root} \cup {Root \o e : e \in EntryNames}

\* filepath.Match on a well-formed pattern of literals and stars: a star
\* matches any run of characters other than the separator.
RECURSIVE MatchChars(_, _)
MatchChars(pattern, name) ==
    IF pattern = <<>> THEN name = <<>>
    ELSE IF Head(pattern) = "*"
         THEN \/ MatchChars(Tail(pattern), name)
              \/ name # <<>> /\ Head(name) # "/" /\ MatchChars(pattern, Tail(name))
         ELSE name # <<>> /\ Head(name) = Head(pattern)
                          /\ MatchChars(Tail(pattern), Tail(name))

\* filepath.Match: ErrBadPattern for a pattern with a bracket that is never
\* closed, whatever the name.
Match(pattern, name) ==
    IF \E n \in DOMAIN pattern : pattern[n] = "["
    THEN [matched |-> FALSE, err |-> TRUE]
    ELSE [matched |-> MatchChars(pattern, name), err |-> FALSE]

\* allowedByFilters: name[1:] is matched against every glob in turn; slicing
\* the empty name panics.
RECURSIVE allowedByFilters(_, _)
allowedByFilters(name, filters) ==
    IF filters = <<>> THEN "nil"
    ELSE IF name = <<>> THEN "panic"
    ELSE LET f == Head(filters)
             m == Match(f.glob, Tail(name))
         IN IF m.err THEN "error"
            ELSE IF m.matched # f.shouldMatch THEN "error"
            ELSE allowedByFilters(name, Tail(filters))

\* FilteredFileSystem.addFilter
addFilter(fs, glob, shouldMatch) ==
    [fs EXCEPT !.filters = Append(@, [glob |-> glob, shouldMatch |-> shouldMatch])]

\* Open of the filesystem under the filters, an http.Dir: the root under
\* "/" and under the empty name, an entry under its path.
UnderlyingOpen(disk, name) ==
    IF name \in {<<>>, Root} THEN "dir"
    ELSE IF name \in {Root \o e : e \in disk} THEN "file"
    ELSE "error"

NoFile == [name |-> <<>>, kind |-> "none", filters |-> <<>>]

NoFsLast == [op |-> "none", name |-> <<>>, filters |-> <<>>, outcome |-> "none",
             entries |-> {}]

\* NewFilteredFileSystem over a directory holding one of the entry sets.
FilesInit(disks) ==
    /\ ffs \in {[disk |-> entries, filters |-> <<>>] : entries \in disks}
    /\ file = NoFile
    /\ fsLast = NoFsLast

\* FilteredFileSystem.Include
Include ==
    /\ Len(ffs.filters) < MaxFilters
    /\ \E glob \in Globs : ffs' = addFilter(ffs, glob, TRUE)
    /\ UNCHANGED <<file, fsLast, exceptFiles>>

\* FilteredFileSystem.Exclude
Exclude ==
    /\ Len(ffs.filters) < MaxFilters
    /\ \E glob \in Globs : ffs' = addFilter(ffs, glob, FALSE)
    /\ UNCHANGED <<file, fsLast, exceptFiles>>

\* FilteredFileSystem.Open
Open ==
    /\ \E name \in OpenNames :
          LET under == UnderlyingOpen(ffs.disk, name)
              allowed == IF under = "error" THEN "error"
                         ELSE allowedByFilters(name, ffs.filters)
              outcome == IF allowed = "nil" THEN "ok" ELSE allowed
          IN /\ file' = IF outcome = "ok"
                        THEN [name |-> name, kind |-> under, filters |-> ffs.filters]
                        ELSE file
             /\ fsLast' = [op |-> "open", name |-> name, filters |-> ffs.filters,
                           outcome |-> outcome, entries |-> {}]
    /\ UNCHANGED <<ffs, exceptFiles>>

\* FilteredFile.Readdir on the file at hand: the entries of a directory
\* that allowedByFilters lets through; an error on a file that is none.
Readdir ==
    /\ file # NoFile
    /\ fsLast' = IF file.kind = "dir"
                 THEN [op |-> "readdir", name |-> file.name, filters |-> file.filters,
                       outcome |-> "ok",
                       entries |-> {e \in ffs.disk :
                                       allowedByFilters(e, file.filters) = "nil"}]
                 ELSE [op |-> "readdir", name |-> file.name, filters |-> file.filters,
                       outcome |-> "error", entries |-> {}]
    /\ UNCHANGED <<ffs, file, exceptFiles>>

NextFiles ==
    \/ Include
    \/ Exclude
    \/ Open
    \/ Readdir

(***************************************************************************)
(* Concurrent passes: one Reconciler invoked for two resource identities,  *)
(* each invocation with the Context it creates.                            *)
(***************************************************************************)
Identities == {"x", "y"}

\* The passes a resource identity gets.
MaxPasses == 2

\* The generation of the object of an identity.
GenerationOf(p) == IF p = "x" THEN 1 ELSE 2

\* The value a component call of pass n for identity p puts into ctx.Data.
Tag(p, n) == <<p, n>>

\* ContextData{}
NoPassData == [k \in Steps |-> <<>>]

\* No invocation under way.
NoRun == [pc |-> "idle", idx |-> 1,
          ctx |-> [Object |-> [conditions |-> EmptyConds, generation |-> 0,
                               hasConditions |-> "method"],
                   Data |-> NoPassData, pending |-> EmptyConds,
                   result |-> EmptyResult, errors |-> <<>>],
          fetched |-> EmptyConds, script |-> <<>>, saw |-> {},
          ret |-> [result |-> EmptyResult, err |-> NilError]]

\* A Reconciler that is invoked for the identities ids, none of them yet.
PassesInit(ids) ==
    /\ runs = [p \in ids |-> [n |-> 0, run |-> NoRun]]
    /\ stored = [p \in ids |-> EmptyConds]

(***************************************************************************)
(* Initial state: a Reconciler with NSteps registered components and a     *)
(* freshly created managed object; no pass has run.                        *)
(***************************************************************************)
NoObj == [deleting |-> FALSE, finalizers |-> {}, conditions |-> EmptyConds,
          generation |-> 0, hasConditions |-> "method"]

NoRet == [result |-> EmptyResult, err |-> NilError, via |-> ""]

\* ContextData{}
EmptyData == [k \in Steps |-> 0]

NoHist == [op |-> "none", calls |-> 0, failed |-> FALSE, cond |-> "none",
           done |-> FALSE, skip |-> FALSE, flushes |-> 0, seq |-> 0, saw |-> EmptyData,
           had |-> {}]

NoReturned == [requeue |-> FALSE, afters |-> {}]

\* The engine before its first pass, with one of the component lists regs,
\* for an object of one of the types kinds: "method" is a type with the
\* GetConditions method, "pointer" a pointer type without it, "struct" a
\* struct type without it and without Status.Conditions.
EngineInitOf(regs, kinds) ==
    /\ components \in regs
    /\ store \in {[exists |-> TRUE, deleting |-> FALSE, skip |-> "absent",
                   finalizers |-> {}, conditions |-> EmptyConds, generation |-> 1,
                   hasConditions |-> k] : k \in kinds}
    /\ pc = "idle"
    /\ obj = NoObj
    /\ cleanObj = NoObj
    /\ pending = EmptyConds
    /\ result = EmptyResult
    /\ errors = <<>>
    /\ ctxData = EmptyData
    /\ err = 0
    /\ idx = 1
    /\ ret = NoRet
    /\ hist = [i \in Steps |-> NoHist]
    /\ returned = NoReturned
    /\ patched = {}
    /\ clean = TRUE
    /\ quiet = 0
    /\ prevDone = FALSE

\* The engine for an object whose type has a list of status conditions.
EngineInit(regs) == EngineInitOf(regs, {"method"})

\* The template component before its first call, with one of the templates ts.
TemplateInit(ts) ==
    /\ templ \in ts
    /\ target = NoTarget
    /\ last = NoLast

\* A template without annotations, for a component without conditionType.
PlainTemplate ==
    [conditionType |-> "", fields |-> [f \in {"image"} |-> "y"], delete |-> "",
     condition |-> "", deepEquals |-> FALSE]

Init ==
    /\ EngineInit(Registrations)
    /\ TemplateInit({PlainTemplate})
    /\ ReadyInit({<<>>})
    /\ SecretInit({<<>>})
    /\ PredicatesInit({<<>>}, {[type |-> "generic", old |-> NoObject, new |-> NoObject]})
    /\ LedgerInit
    /\ DataInit({NoValues})
    /\ FilesInit({{}})
    /\ PassesInit({})

(***************************************************************************)
(* Reconcile, up to the component loop.                                    *)
(***************************************************************************)
\* The scheduler runs one pass at a time for a given object.
CanStart == pc = "idle"

\* A Context whose err outlives the pass.
NewContextKeepErr(o) ==
    /\ obj' = o
    /\ cleanObj' = o
    /\ pending' = EmptyConds
    /\ result' = EmptyResult
    /\ errors' = <<>>
    /\ ctxData' = EmptyData
    /\ err' = err
    /\ idx' = 1
    /\ hist' = [i \in Steps |-> NoHist]
    /\ returned' = NoReturned
    /\ patched' = {}

\* A fresh Context: Data, result, errors and the pending conditions start
\* empty, and the history of the pass starts empty with them.
NewContext(o) ==
    /\ obj' = o
    /\ cleanObj' = o
    /\ pending' = EmptyConds
    /\ result' = EmptyResult
    /\ errors' = <<>>
    /\ ctxData' = EmptyData
    /\ err' = 0
    /\ idx' = 1
    /\ hist' = [i \in Steps |-> NoHist]
    /\ returned' = NoReturned
    /\ patched' = {}

\* The history of undisturbed passes, kept for deterministic registrations.
History(c, q, d) ==
    IF Deterministic
    THEN clean' = c /\ quiet' = q /\ prevDone' = d
    ELSE UNCHANGED <<clean, quiet, prevDone>>

\* A pass begins.
Begin(q) == History(TRUE, q, prevDone)

\* Reconcile returns res and e; via names the return statement taken.
ReturnVia(via, res, e) ==
    /\ ret' = [result |-> res, err |-> e, via |-> via]
    /\ pc' = "done"

\* The return at the last line of Reconcile, unless building the final error
\* panicked.
Return(res, e) == ReturnVia(IF e.kind = "panic" THEN "panic" ELSE "end", res, e)

\* A NotFound that is treated as any other error of the fetch.
ReconcileNotFoundAsError ==
    /\ CanStart
    /\ ~store.exists
    /\ NewContext(NoObj)
    /\ ReturnVia("notFound", [Requeue |-> TRUE, RequeueAfter |-> 0],
                 [kind |-> "get", list |-> <<>>])
    /\ Begin(0)
    /\ UNCHANGED <<exceptEngine, components, store>>

\* The fetch answers NotFound: bail out silently.
ReconcileNotFound ==
    /\ CanStart
    /\ ~store.exists
    /\ NewContext(NoObj)
    /\ ReturnVia("notFound", EmptyResult, NilError)
    /\ Begin(0)
    /\ UNCHANGED <<exceptEngine, components, store>>

\* A failed fetch that is passed over like a NotFound.
ReconcileGetErrorSilent ==
    /\ CanStart
    /\ NewContext(NoObj)
    /\ ReturnVia("getError", EmptyResult, NilError)
    /\ Begin(0)
    /\ UNCHANGED <<exceptEngine, components, store>>

\* The fetch fails with any other error.
ReconcileGetError ==
    /\ CanStart
    /\ NewContext(NoObj)
    /\ ReturnVia("getError", [Requeue |-> TRUE, RequeueAfter |-> 0],
                 [kind |-> "get", list |-> <<>>])
    /\ Begin(0)
    /\ UNCHANGED <<exceptEngine, components, store>>

\* The object a successful fetch delivers.
Fetched == [deleting |-> store.deleting, finalizers |-> store.finalizers,
            conditions |-> store.conditions, generation |-> store.generation,
            hasConditions |-> store.hasConditions]

\* What the object may hold for the annotation controller-utils/skip-reconcile:
\* no such annotation ("absent"), or the annotation with one of two values.
SkipValues == {"absent", "true", "false"}

\* An early exit for any value of the annotation.
ReconcileBlockedIfPresent ==
    /\ CanStart
    /\ store.exists /\ store.skip # "absent"
    /\ NewContext(Fetched)
    /\ ReturnVia("blocked", EmptyResult, NilError)
    /\ Begin(0)
    /\ UNCHANGED <<exceptEngine, components, store>>

\* The skip-reconcile annotation is "true": exit early.
ReconcileBlocked ==
    /\ CanStart
    /\ store.exists /\ store.skip = "true"
    /\ NewContext(Fetched)
    /\ ReturnVia("blocked", EmptyResult, NilError)
    /\ Begin(0)
    /\ UNCHANGED <<exceptEngine, components, store>>

\* Fetch, snapshot, and enter the component loop.
ReconcileStart ==
    /\ CanStart
    /\ store.exists /\ store.skip # "true"
    /\ NewContext(Fetched)
    /\ pc' = "loop"
    /\ Begin(quiet)
    /\ UNCHANGED <<exceptEngine, components, store, ret>>

(***************************************************************************)
(* One iteration of the component loop.                                    *)
(***************************************************************************)
\* controllerutil.AddFinalizer / RemoveFinalizer / ContainsFinalizer; the
\* marker of a component is finalizerBaseName + name, one per component.
AddFinalizer(fins, name) == fins \cup {name}
RemoveFinalizer(fins, name) == fins \ {name}
ContainsFinalizer(fins, name) == name \in fins

\* An isAlive that does not look at the deletion timestamp.
IsAliveAlways == TRUE

\* isAlive := ctx.Object.GetDeletionTimestamp() == nil
IsAlive == ~obj.deleting

\* The buffer after the engine's SetUnknown for a declared ready condition.
PreSet(rc) ==
    IF rc.readyCondition # <<>>
    THEN SetUnknown(pending, obj, rc.readyCondition, "Unknown")
    ELSE pending

\* The buffer after the component itself set (or did not set) its condition.
OwnSet(pend, rc, own) ==
    IF own = "none" THEN pend
    ELSE Set(pend, obj, rc.readyCondition, own, "Component", 0)

\* The buffer after the engine marked the condition bad for a non-nil err.
ErrorSet(pend, rc, e) ==
    IF e # 0 /\ rc.readyCondition # <<>>
    THEN Set(pend, obj, rc.readyCondition, rc.errorConditionStatus, "Error", e)
    ELSE pend

\* A tail that goes through the iteration of a component once more when its
\* first call failed.
EndIterationRetry(rc, pend, fins, res, e) ==
    LET flush == FlushHelper(obj, ErrorSet(pend, rc, e)) IN
    /\ obj' = [obj EXCEPT !.finalizers = fins, !.conditions = flush.conditions]
    /\ pending' = flush.pending
    /\ err' = e
    /\ errors' = MergeErrors(errors, rc.name, e, flush.err)
    /\ result' = MergeRequeue(result, res)
    /\ ret' = ret
    /\ IF e # 0 /\ hist[idx].calls = 0
       THEN pc' = "loop" /\ idx' = idx
       ELSE IF res.SkipRemaining \/ idx = NSteps
       THEN pc' = "patchMeta" /\ idx' = idx
       ELSE pc' = "loop" /\ idx' = idx + 1

\* A tail that returns from Reconcile at the first error, without patches.
EndIterationBail(rc, pend, fins, res, e) ==
    LET flush == FlushHelper(obj, ErrorSet(pend, rc, e)) IN
    /\ obj' = [obj EXCEPT !.finalizers = fins, !.conditions = flush.conditions]
    /\ pending' = flush.pending
    /\ err' = e
    /\ errors' = MergeErrors(errors, rc.name, e, flush.err)
    /\ result' = MergeRequeue(result, res)
    /\ IF e # 0
       THEN /\ ReturnVia("end", MergeRequeue(result, res),
                         [kind |-> "single", list |-> <<Wrapf(e, rc.name, "reconcile")>>])
            /\ idx' = idx
       ELSE /\ ret' = ret
            /\ IF res.SkipRemaining \/ idx = NSteps
               THEN pc' = "patchMeta" /\ idx' = idx
               ELSE pc' = "loop" /\ idx' = idx + 1

\* A tail that goes on to the next component whatever SkipRemaining says.
EndIterationNoSkip(rc, pend, fins, res, e) ==
    LET flush == FlushHelper(obj, ErrorSet(pend, rc, e)) IN
    /\ obj' = [obj EXCEPT !.finalizers = fins, !.conditions = flush.conditions]
    /\ pending' = flush.pending
    /\ err' = e
    /\ errors' = MergeErrors(errors, rc.name, e, flush.err)
    /\ result' = MergeRequeue(result, res)
    /\ ret' = ret
    /\ IF idx = NSteps
       THEN pc' = "patchMeta" /\ idx' = idx
       ELSE pc' = "loop" /\ idx' = idx + 1

\* A tail that leaves the loop at the first error.
EndIterationAbort(rc, pend, fins, res, e) ==
    LET flush == FlushHelper(obj, ErrorSet(pend, rc, e)) IN
    /\ obj' = [obj EXCEPT !.finalizers = fins, !.conditions = flush.conditions]
    /\ pending' = flush.pending
    /\ err' = e
    /\ IF flush.panic
       THEN /\ ReturnVia("flushPanic", EmptyResult, [kind |-> "panic", list |-> <<>>])
            /\ UNCHANGED <<errors, result, idx>>
       ELSE /\ errors' = MergeErrors(errors, rc.name, e, flush.err)
            /\ result' = MergeRequeue(result, res)
            /\ ret' = ret
            /\ IF res.SkipRemaining \/ idx = NSteps \/ e # 0
               THEN pc' = "patchMeta" /\ idx' = idx
               ELSE pc' = "loop" /\ idx' = idx + 1

\* The tail of an iteration: error condition, mergeResult (flush, errors,
\* requeue), and the SkipRemaining break.
EndIteration(rc, pend, fins, res, e) ==
    LET flush == FlushHelper(obj, ErrorSet(pend, rc, e)) IN
    /\ obj' = [obj EXCEPT !.finalizers = fins, !.conditions = flush.conditions]
    /\ pending' = flush.pending
    /\ err' = e
    /\ IF flush.panic
       THEN /\ ReturnVia("flushPanic", EmptyResult, [kind |-> "panic", list |-> <<>>])
            /\ UNCHANGED <<errors, result, idx>>
       ELSE /\ errors' = MergeErrors(errors, rc.name, e, flush.err)
            /\ result' = MergeRequeue(result, res)
            /\ ret' = ret
            /\ IF res.SkipRemaining \/ idx = NSteps
               THEN pc' = "patchMeta" /\ idx' = idx
               ELSE pc' = "loop" /\ idx' = idx + 1

\* What one call of a component may do: return a Result, fail or not, report
\* done or not (Finalize only), set its own condition or not.
Outcomes(rc) ==
    [res : rc.comp.results, failed : rc.comp.fails, done : rc.comp.dones,
     cond : rc.comp.conds]

\* A condition list as the set of the conditions it holds: type, status and
\* observed generation of each.
Held(conds) ==
    {<<t, conds[t].Status, conds[t].ObservedGeneration>> :
        t \in {u \in CondTypes : conds[u] # NoCond}}

\* A call of the component the loop is at: what it writes into ctx.Data, and
\* the history of the call, with the ctx.Data the call was handed and the
\* condition list ctx.Object had then.
Called(op, o) ==
    /\ ctxData' = IF components[idx].comp.writes
                  THEN [ctxData EXCEPT ![idx] = idx]
                  ELSE ctxData
    /\ hist' = [hist EXCEPT ![idx] =
            [op |-> op, calls |-> @.calls + 1, failed |-> o.failed, cond |-> o.cond,
             done |-> op = "finalize" /\ o.done, skip |-> o.res.SkipRemaining,
             flushes |-> @.flushes + 1,
             seq |-> Cardinality({i \in Steps : hist[i].calls > 0}) + 1,
             saw |-> ctxData,
             had |-> Held(obj.conditions)]]
    /\ returned' = [requeue |-> returned.requeue \/ o.res.Requeue,
                    afters |-> returned.afters \cup ({o.res.RequeueAfter} \ {0})]

\* A live iteration that adds the marker only after a successful Reconcile.
ComponentReconcileMarkOnSuccess ==
    /\ pc = "loop"
    /\ IsAlive
    /\ LET rc == components[idx] IN
       \E o \in Outcomes(rc) :
          /\ Called("reconcile", o)
          /\ EndIteration(rc, OwnSet(PreSet(rc), rc, o.cond),
                          IF rc.finalizer /\ ~o.failed
                          THEN AddFinalizer(obj.finalizers, rc.name)
                          ELSE obj.finalizers,
                          o.res, IF o.failed THEN rc.name ELSE 0)
    /\ UNCHANGED <<exceptEngine, components, store, cleanObj, patched, clean, quiet, prevDone>>

\* The object is alive: call Reconcile of the component, then add its marker.
ComponentReconcile ==
    /\ pc = "loop"
    /\ IsAlive
    /\ LET rc == components[idx] IN
       \E o \in Outcomes(rc) :
          /\ Called("reconcile", o)
          /\ EndIteration(rc, OwnSet(PreSet(rc), rc, o.cond),
                          IF rc.finalizer THEN AddFinalizer(obj.finalizers, rc.name)
                          ELSE obj.finalizers,
                          o.res, IF o.failed THEN rc.name ELSE 0)
    /\ UNCHANGED <<exceptEngine, components, store, cleanObj, patched, clean, quiet, prevDone>>

\* A finalizing iteration that removes the marker whatever Finalize reports.
ComponentFinalizeAlwaysRemove ==
    /\ pc = "loop"
    /\ ~IsAlive
    /\ LET rc == components[idx] IN
       /\ rc.finalizer /\ ContainsFinalizer(obj.finalizers, rc.name)
       /\ \E o \in Outcomes(rc) :
          /\ Called("finalize", o)
          /\ EndIteration(rc, OwnSet(PreSet(rc), rc, o.cond),
                          RemoveFinalizer(obj.finalizers, rc.name),
                          o.res, IF o.failed THEN rc.name ELSE 0)
    /\ UNCHANGED <<exceptEngine, components, store, cleanObj, patched, clean, quiet, prevDone>>

\* A Finalize that never has its marker removed.
ComponentFinalizeKeep ==
    /\ pc = "loop"
    /\ ~IsAlive
    /\ LET rc == components[idx] IN
       /\ rc.finalizer /\ ContainsFinalizer(obj.finalizers, rc.name)
       /\ \E o \in Outcomes(rc) :
          /\ Called("finalize", o)
          /\ EndIteration(rc, OwnSet(PreSet(rc), rc, o.cond), obj.finalizers,
                          o.res, IF o.failed THEN rc.name ELSE 0)
    /\ UNCHANGED <<exceptEngine, components, store, cleanObj, patched, clean, quiet, prevDone>>

\* The object is being deleted and the marker is present: call Finalize, and
\* remove the marker when it reports done.
ComponentFinalize ==
    /\ pc = "loop"
    /\ ~IsAlive
    /\ LET rc == components[idx] IN
       /\ rc.finalizer /\ ContainsFinalizer(obj.finalizers, rc.name)
       /\ \E o \in Outcomes(rc) :
          /\ Called("finalize", o)
          /\ EndIteration(rc, OwnSet(PreSet(rc), rc, o.cond),
                          IF o.done THEN RemoveFinalizer(obj.finalizers, rc.name)
                          ELSE obj.finalizers,
                          o.res, IF o.failed THEN rc.name ELSE 0)
    /\ UNCHANGED <<exceptEngine, components, store, cleanObj, patched, clean, quiet, prevDone>>

\* The object is being deleted and the component has nothing to finalize:
\* no call is made, res stays the zero Result and err keeps its value.
ComponentIdle ==
    /\ pc = "loop"
    /\ ~IsAlive
    /\ LET rc == components[idx] IN
       /\ ~(rc.finalizer /\ ContainsFinalizer(obj.finalizers, rc.name))
       /\ hist' = [hist EXCEPT ![idx] = [@ EXCEPT !.op = "idle", !.flushes = @ + 1]]
       /\ EndIteration(rc, PreSet(rc), obj.finalizers, ZeroResult, err)
    /\ UNCHANGED <<exceptEngine, components, store, cleanObj, ctxData, returned, patched,
                   clean, quiet, prevDone>>

(***************************************************************************)
(* End of the pass: metadata patch, status patch, final error.             *)
(***************************************************************************)
\* The API server removes an object that is being deleted once no finalizer
\* is left on it.
Collect(s) ==
    IF s.deleting /\ s.finalizers = {} THEN [s EXCEPT !.exists = FALSE] ELSE s

\* client.Patch of the metadata, as a merge patch from the clean snapshot:
\* the finalizer list is sent only when it differs from the snapshot.  The API
\* server refuses new finalizers on an object that is being deleted.
PatchMetadata ==
    /\ pc = "patchMeta"
    /\ patched' = patched \cup {"metadata"}
                   \cup (IF store.exists THEN {} ELSE {"metadataNotFound"})
    /\ \/ /\ ~store.exists                      \* NotFound: ignored
          /\ pc' = "patchStatus"
          /\ UNCHANGED <<store, ret, quiet>>
       \/ /\ store.exists                       \* applied
          /\ store.deleting => obj.finalizers \subseteq store.finalizers
          /\ store' = IF obj.finalizers # cleanObj.finalizers
                      THEN Collect([store EXCEPT !.finalizers = obj.finalizers])
                      ELSE store
          /\ pc' = "patchStatus"
          /\ UNCHANGED <<ret, quiet>>
       \/ /\ store.exists                       \* any other error
          /\ ReturnVia("patchMetadata", result, [kind |-> "patchMeta", list |-> <<>>])
          /\ quiet' = 0
          /\ UNCHANGED store
    /\ UNCHANGED <<exceptEngine, components, cleanObj, clean, prevDone>>
    /\ UNCHANGED loopVars

\* The final error of a pass that got through both patches: nil, the only
\* entry of ctx.errors (nil if that entry is nil), or a new error whose
\* message lists the message of every entry.  Asking a nil entry for its
\* message is a nil dereference: Reconcile panics.
FinalError(errs) ==
    IF Len(errs) = 0 THEN NilError
    ELSE IF Len(errs) = 1
         THEN IF errs[1].cause = 0 THEN NilError ELSE [kind |-> "single", list |-> errs]
    ELSE IF \E n \in DOMAIN errs : errs[n].cause = 0 THEN [kind |-> "panic", list |-> errs]
    ELSE [kind |-> "multi", list |-> errs]

\* A status patch whose NotFound answer is returned like any other error.
PatchStatusNotFoundFails ==
    /\ pc = "patchStatus"
    /\ patched' = patched \cup {"status"}
                   \cup (IF store.exists THEN {} ELSE {"statusNotFound"})
    /\ \/ /\ ~store.exists
          /\ ReturnVia("patchStatus", result, [kind |-> "patchStatus", list |-> <<>>])
          /\ quiet' = 0
          /\ UNCHANGED store
       \/ /\ store.exists
          /\ store' = IF obj.conditions # cleanObj.conditions
                      THEN [store EXCEPT !.conditions = obj.conditions]
                      ELSE store
          /\ Return(result, FinalError(errors))
          /\ quiet' = IF ~Deterministic THEN quiet
                    ELSE IF ~clean THEN 0 ELSE IF quiet < 2 THEN quiet + 1 ELSE 2
    /\ UNCHANGED <<exceptEngine, components, cleanObj, clean, prevDone>>
    /\ UNCHANGED loopVars

\* client.Status().Patch of the object, as a merge patch from the snapshot,
\* then the final error and the return.
PatchStatus ==
    /\ pc = "patchStatus"
    /\ patched' = patched \cup {"status"}
                   \cup (IF store.exists THEN {} ELSE {"statusNotFound"})
    /\ \/ /\ ~store.exists                      \* NotFound: ignored
          /\ Return(result, FinalError(errors))
          /\ quiet' = 0
          /\ UNCHANGED store
       \/ /\ store.exists                       \* applied
          /\ store' = IF obj.conditions # cleanObj.conditions
                      THEN [store EXCEPT !.conditions = obj.conditions]
                      ELSE store
          /\ Return(result, FinalError(errors))
          /\ quiet' = IF ~Deterministic THEN quiet
                    ELSE IF ~clean THEN 0 ELSE IF quiet < 2 THEN quiet + 1 ELSE 2
       \/ /\ store.exists                       \* any other error
          /\ ReturnVia("patchStatus", result, [kind |-> "patchStatus", list |-> <<>>])
          /\ quiet' = 0
          /\ UNCHANGED store
    /\ UNCHANGED <<exceptEngine, components, cleanObj, clean, prevDone>>
    /\ UNCHANGED loopVars

\* Reconcile has returned: its Context is gone, the scheduler may start the
\* next pass.  Remember whether a Finalize of this pass reported done.
ReconcileReturn ==
    /\ pc = "done"
    /\ pc' = "idle"
    /\ NewContext(NoObj)
    /\ ret' = NoRet
    /\ History(clean, quiet, \E i \in Steps : hist[i].done)
    /\ UNCHANGED <<exceptEngine, components, store>>

(***************************************************************************)
(* The environment of the engine.  The loop does not read the stored       *)
(* object, so what happens to it during the loop is modelled as happening  *)
(* right after the loop.                                                   *)
(***************************************************************************)
Outside ==
    /\ History(FALSE, 0, prevDone)
    /\ UNCHANGED <<exceptEngine, components, pc, cleanObj, ret, patched>>
    /\ UNCHANGED loopVars

\* A user deletes the managed object.
RequestDelete ==
    /\ pc \in {"idle", "patchMeta", "patchStatus"}
    /\ store.exists /\ ~store.deleting
    /\ store' = Collect([store EXCEPT !.deleting = TRUE])
    /\ Outside

\* A user sets, changes or clears the skip-reconcile annotation; it is read by the
\* fetch only.
SetSkipAnnotation ==
    /\ CanStart
    /\ store.exists
    /\ \E v \in SkipValues \ {store.skip} : store' = [store EXCEPT !.skip = v]
    /\ Outside

Next ==
    \/ ReconcileNotFound
    \/ ReconcileGetError
    \/ ReconcileBlocked
    \/ ReconcileStart
    \/ ComponentReconcile
    \/ ComponentFinalize
    \/ ComponentIdle
    \/ PatchMetadata
    \/ PatchStatus
    \/ ReconcileReturn
    \/ RequestDelete
    \/ SetSkipAnnotation

Spec == Init /\ [][Next]_vars

\* The Finalize of component i reports done.
FinalizeDone(i) == ComponentFinalize /\ idx = i /\ hist'[i].done

\* The Finalize of component i lets the loop go on.
FinalizeOn(i) == ComponentFinalize /\ idx = i /\ ~hist'[i].skip

\* The API server takes a metadata patch that changes the finalizers.
MarkersPatched ==
    PatchMetadata /\ pc' = "patchStatus" /\ store'.finalizers # store.finalizers

\* A user lifts the skip-reconcile annotation.
Unblocked == SetSkipAnnotation /\ store'.skip # "true"

\* Passes are repeated for as long as the object is there and each gets to
\* its end; a pass is not held back for ever by the skip annotation or by a
\* failing fetch; the API server does not refuse every patch of the
\* finalizers; and no Finalize goes on for ever reporting that it is not
\* done, or returning SkipRemaining.
FairPasses ==
    /\ WF_vars(ComponentReconcile \/ ComponentFinalize \/ ComponentIdle)
    /\ WF_vars(PatchMetadata)
    /\ WF_vars(PatchStatus)
    /\ WF_vars(ReconcileReturn)
    /\ WF_vars(ReconcileNotFound \/ ReconcileGetError \/ ReconcileBlocked \/ ReconcileStart)
    /\ SF_vars(ReconcileStart)
    /\ SF_vars(Unblocked)
    /\ SF_vars(MarkersPatched)
    /\ \A i \in Steps : SF_vars(FinalizeDone(i)) /\ SF_vars(FinalizeOn(i))

\* An implementation that can finalize and declares no condition; its calls
\* may fail or not, report done or not, and return the zero Result or
\* SkipRemaining.
CleanupComp ==
    [finalizer |-> TRUE, ready |-> <<>>,
     results |-> {ZeroResult, SkipResult}, fails |-> BOOLEAN, dones |-> BOOLEAN,
     conds |-> {"none"}, writes |-> FALSE]

\* The engine under fair repetition of passes, with components that can
\* finalize, alone or behind one that cannot.
InitFinalization ==
    /\ EngineInit({[i \in Steps |-> Component(i, CleanupComp)],
                   [i \in Steps |-> Component(i, IF i = 1 THEN MixedComp(1, 1)
                                                  ELSE CleanupComp)]})
    /\ TemplateInit({PlainTemplate})
    /\ ReadyInit({<<>>})
    /\ SecretInit({<<>>})
    /\ PredicatesInit({<<>>}, {[type |-> "generic", old |-> NoObject, new |-> NoObject]})
    /\ LedgerInit
    /\ DataInit({NoValues})
    /\ FilesInit({{}})
    /\ PassesInit({})

SpecFinalization == InitFinalization /\ [][Next]_vars /\ FairPasses

(***************************************************************************)
(* Concurrent passes: the invocations.                                     *)
(***************************************************************************)
\* The components registered with the Reconciler: each declares a condition
\* and writes under its key in ctx.Data.
PassComp(i) ==
    [finalizer |-> FALSE, ready |-> Declared(i, "plain"),
     results |-> {[Requeue |-> FALSE, RequeueAfter |-> 10 * i, SkipRemaining |-> FALSE]},
     fails |-> BOOLEAN, dones |-> {FALSE}, conds |-> {"none"}, writes |-> TRUE]

PassComponents == [i \in Steps |-> Component(i, PassComp(i))]

\* What a call returns: an error and the zero Result, or a RequeueAfter.
PassOutcomes(rc) ==
    {[res |-> IF failed THEN ZeroResult
              ELSE CHOOSE r \in rc.comp.results : TRUE,
      failed |-> failed] : failed \in rc.comp.fails}

\* A Context that takes over ctx.Data as the invocation for the other
\* identity has it.
SharedDataContext(rs, p, conditions) ==
    [Object |-> [conditions |-> conditions, generation |-> GenerationOf(p),
                 hasConditions |-> "method"],
     Data |-> rs[CHOOSE q \in Identities : q # p].run.ctx.Data,
     pending |-> EmptyConds,
     result |-> EmptyResult,
     errors |-> <<>>]

\* The Context of an invocation for identity p that fetched an object with
\* the given conditions: Data, the pending conditions, the result and the
\* errors are new and empty.
NewPassContext(rs, p, conditions) ==
    [Object |-> [conditions |-> conditions, generation |-> GenerationOf(p),
                 hasConditions |-> "method"],
     Data |-> NoPassData,
     pending |-> EmptyConds,
     result |-> EmptyResult,
     errors |-> <<>>]

\* One iteration of the component loop on Context c, for a live object: the
\* call of component i returns o and puts tag into ctx.Data.
Iteration(c, i, o, tag) ==
    LET rc == PassComponents[i]
        e == IF o.failed THEN rc.name ELSE 0
        unknown == SetUnknown(c.pending, c.Object, rc.readyCondition, "Unknown")
        pend == IF e # 0
                THEN Set(unknown, c.Object, rc.readyCondition, rc.errorConditionStatus,
                         "Error", e)
                ELSE unknown
        flush == FlushHelper(c.Object, pend)
    IN [Object |-> [c.Object EXCEPT !.conditions = flush.conditions],
        Data |-> [c.Data EXCEPT ![i] = tag],
        pending |-> flush.pending,
        result |-> MergeRequeue(c.result, o.res),
        errors |-> MergeErrors(c.errors, rc.name, e, flush.err)]

\* What Reconcile returns from Context c, and the conditions it patches.
OutcomeOf(c) ==
    [result |-> c.result, err |-> FinalError(c.errors),
     conditions |-> c.Object.conditions]

\* Reconcile is invoked for an identity that has no invocation under way.
PassStart ==
    /\ \E p \in DOMAIN runs :
          /\ runs[p].run.pc = "idle" /\ runs[p].n < MaxPasses
          /\ runs' = [runs EXCEPT ![p] =
                [n |-> @.n + 1,
                 run |-> [NoRun EXCEPT !.pc = "loop",
                                       !.ctx = NewPassContext(runs, p, stored[p]),
                                       !.fetched = stored[p]]]]
    /\ UNCHANGED <<stored, exceptPasses>>

\* An invocation goes through one iteration of its loop.
PassStep ==
    /\ \E p \in DOMAIN runs :
          LET r == runs[p].run IN
          /\ r.pc = "loop"
          /\ \E o \in PassOutcomes(PassComponents[r.idx]) :
                runs' = [runs EXCEPT ![p].run =
                    [r EXCEPT !.ctx = Iteration(r.ctx, r.idx, o, Tag(p, runs[p].n)),
                              !.saw = @ \cup ({r.ctx.Data[k] : k \in Steps} \ {<<>>}),
                              !.script = Append(@, o),
                              !.idx = IF r.idx = NSteps THEN @ ELSE @ + 1,
                              !.pc = IF r.idx = NSteps THEN "patch" ELSE "loop"]]
    /\ UNCHANGED <<stored, exceptPasses>>

\* An invocation patches the status and returns.
PassPatch ==
    /\ \E p \in DOMAIN runs :
          LET r == runs[p].run IN
          /\ r.pc = "patch"
          /\ stored' = [stored EXCEPT ![p] = r.ctx.Object.conditions]
          /\ runs' = [runs EXCEPT ![p].run =
                [r EXCEPT !.pc = "done",
                          !.ret = [result |-> r.ctx.result,
                                   err |-> FinalError(r.ctx.errors)]]]
    /\ UNCHANGED exceptPasses

\* The invocation is over and its Context with it.
PassReturn ==
    /\ \E p \in DOMAIN runs :
          /\ runs[p].run.pc = "done"
          /\ runs' = [runs EXCEPT ![p].run = NoRun]
    /\ UNCHANGED <<stored, exceptPasses>>

NextPasses ==
    \/ PassStart
    \/ PassStep
    \/ PassPatch
    \/ PassReturn

\* The template component on its own, under an engine that stays idle.
InitTemplate ==
    /\ EngineInit({[i \in Steps |->
            Component(i, FixedComp(i, 0, [failed |-> FALSE, sets |-> FALSE,
                                          done |-> FALSE]))]})
    /\ TemplateInit(Templates)
    /\ ReadyInit({<<>>})
    /\ SecretInit({<<>>})
    /\ PredicatesInit({<<>>}, {[type |-> "generic", old |-> NoObject, new |-> NoObject]})
    /\ LedgerInit
    /\ DataInit({NoValues})
    /\ FilesInit({{}})
    /\ PassesInit({})

SpecTemplate == InitTemplate /\ [][NextTemplate]_vars

\* The engine over an object whose type has no GetConditions method: every
\* Flush returns an error or panics.
InitUnconditioned ==
    /\ EngineInitOf(Registrations, {"struct", "pointer"})
    /\ TemplateInit({PlainTemplate})
    /\ ReadyInit({<<>>})
    /\ SecretInit({<<>>})
    /\ PredicatesInit({<<>>}, {[type |-> "generic", old |-> NoObject, new |-> NoObject]})
    /\ LedgerInit
    /\ DataInit({NoValues})
    /\ FilesInit({{}})
    /\ PassesInit({})

SpecUnconditioned == InitUnconditioned /\ [][Next]_vars

\* A registration whose components do nothing, for an engine that stays idle.
IdleRegistration ==
    [i \in Steps |->
        Component(i, FixedComp(i, 0, [failed |-> FALSE, sets |-> FALSE,
                                      done |-> FALSE]))]

\* The ready status component on its own, under an engine that stays idle.
InitReady ==
    /\ EngineInit({IdleRegistration})
    /\ TemplateInit({PlainTemplate})
    /\ ReadyInit(KeyLists)
    /\ SecretInit({<<>>})
    /\ PredicatesInit({<<>>}, {[type |-> "generic", old |-> NoObject, new |-> NoObject]})
    /\ LedgerInit
    /\ DataInit({NoValues})
    /\ FilesInit({{}})
    /\ PassesInit({})

SpecReady == InitReady /\ [][NextReady]_vars

\* The random secret component on its own, under an engine that stays idle.
InitSecret ==
    /\ EngineInit({IdleRegistration})
    /\ TemplateInit({PlainTemplate})
    /\ ReadyInit({<<>>})
    /\ SecretInit(SecretKeyLists)
    /\ PredicatesInit({<<>>}, {[type |-> "generic", old |-> NoObject, new |-> NoObject]})
    /\ LedgerInit
    /\ DataInit({NoValues})
    /\ FilesInit({{}})
    /\ PassesInit({})

SpecSecret == InitSecret /\ [][NextSecret]_vars

\* The predicates on their own, under an engine that stays idle.
InitPredicates ==
    /\ EngineInit({IdleRegistration})
    /\ TemplateInit({PlainTemplate})
    /\ ReadyInit({<<>>})
    /\ SecretInit({<<>>})
    /\ PredicatesInit(PredicateKeyLists, Events)
    /\ LedgerInit
    /\ DataInit({NoValues})
    /\ FilesInit({{}})
    /\ PassesInit({})

SpecPredicates == InitPredicates /\ [][NextPredicates]_vars

\* The conditions helper on its own, under an engine that stays idle.
InitLedger ==
    /\ EngineInit({IdleRegistration})
    /\ TemplateInit({PlainTemplate})
    /\ ReadyInit({<<>>})
    /\ SecretInit({<<>>})
    /\ PredicatesInit({<<>>}, {[type |-> "generic", old |-> NoObject, new |-> NoObject]})
    /\ LedgerInit
    /\ DataInit({NoValues})
    /\ FilesInit({{}})
    /\ PassesInit({})

SpecLedger == InitLedger /\ [][NextLedger]_vars

\* ContextData on its own, under an engine that stays idle.
InitData ==
    /\ EngineInit({IdleRegistration})
    /\ TemplateInit({PlainTemplate})
    /\ ReadyInit({<<>>})
    /\ SecretInit({<<>>})
    /\ PredicatesInit({<<>>}, {[type |-> "generic", old |-> NoObject, new |-> NoObject]})
    /\ LedgerInit
    /\ DataInit([DataKeys -> DataValues \cup {NoValue}])
    /\ FilesInit({{}})
    /\ PassesInit({})

SpecData == InitData /\ [][NextData]_vars

\* The filtered filesystem on its own, under an engine that stays idle.
InitFiles ==
    /\ EngineInit({IdleRegistration})
    /\ TemplateInit({PlainTemplate})
    /\ ReadyInit({<<>>})
    /\ SecretInit({<<>>})
    /\ PredicatesInit({<<>>}, {[type |-> "generic", old |-> NoObject, new |-> NoObject]})
    /\ LedgerInit
    /\ DataInit({NoValues})
    /\ FilesInit(SUBSET EntryNames)
    /\ PassesInit({})

SpecFiles == InitFiles /\ [][NextFiles]_vars

\* Concurrent passes on their own, under an engine that stays idle.
InitPasses ==
    /\ EngineInit({IdleRegistration})
    /\ TemplateInit({PlainTemplate})
    /\ ReadyInit({<<>>})
    /\ SecretInit({<<>>})
    /\ PredicatesInit({<<>>}, {[type |-> "generic", old |-> NoObject, new |-> NoObject]})
    /\ LedgerInit
    /\ DataInit({NoValues})
    /\ FilesInit({{}})
    /\ PassesInit(Identities)

SpecPasses == InitPasses /\ [][NextPasses]_vars

TypeOK ==
    /\ pc \in {"idle", "loop", "patchMeta", "patchStatus", "done"}
    /\ idx \in Steps
    /\ err \in 0..NSteps
    /\ quiet \in 0..2

(***************************************************************************)
(* Properties of the engine.                                               *)
(***************************************************************************)
\* The loop is past component i in the current pass.
Past(i) == \/ pc = "loop" /\ i < idx
           \/ pc \in {"patchMeta", "patchStatus", "done"} /\ hist[i].op # "none"

\* A pass that entered the component loop is under way or has just returned.
InPass == \/ pc \in {"loop", "patchMeta", "patchStatus"}
          \/ pc = "done" /\ "metadata" \in patched

\* Reconcile returned from its last line, with the final error.
Completed == pc = "done" /\ {"metadata", "status"} \subseteq patched
             /\ ret.err.kind \in {"nil", "single", "multi"}

\* The condition the engine holds for component i, on the in-memory object.
CondOf(i) == obj.conditions[components[i].readyCondition]

HasCond(i) == components[i].readyCondition # <<>>

\* The condition of component i is what its own call made it: what the call
\* set, Unknown if it set nothing.
OwnRecorded(i) ==
    HasCond(i) =>
        IF hist[i].cond = "none"
        THEN CondOf(i).Status = "Unknown" /\ CondOf(i).Reason = "Unknown"
        ELSE CondOf(i).Status = hist[i].cond /\ CondOf(i).Reason = "Component"

\* Component j failed in this pass, alone, and no call asked to skip the rest.
OnlyFailure(j) ==
    /\ hist[j].op = "reconcile" /\ hist[j].failed
    /\ \A i \in Steps : ~hist[i].skip /\ (i # j => ~hist[i].failed)

\* C1 (partial-failure isolation): when a pass over a live object completes
\* in which Reconcile of one component failed, alone, and no call returned
\* SkipRemaining, every other component was called once and holds the
\* condition its own call produced, and the returned error is the error of the
\* failed component under its name and carries no other name.
C1_PartialFailureIsolation ==
    \A j \in Steps :
        (Completed /\ ~obj.deleting /\ OnlyFailure(j)) =>
            /\ \A i \in Steps \ {j} :
                /\ hist[i].op = "reconcile" /\ hist[i].calls = 1
                /\ OwnRecorded(i)
                /\ store.exists => store.conditions = obj.conditions
            /\ ret.err.kind = "single"
            /\ {e.name : e \in {ret.err.list[n] : n \in DOMAIN ret.err.list}} = {j}
            /\ {e.cause : e \in {ret.err.list[n] : n \in DOMAIN ret.err.list}} = {j}

\* Witness of C1: three components, the second failed, the first and the
\* third hold what their own calls produced.
C1_Witness ==
    /\ Completed /\ ~obj.deleting /\ NSteps >= 3 /\ OnlyFailure(2)
    /\ hist[1].op = "reconcile" /\ hist[3].op = "reconcile"
    /\ HasCond(1) /\ hist[1].cond # "none"
    /\ HasCond(3) /\ hist[3].cond = "none"
    /\ ret.err.kind = "single"

\* C2 (finalizer lifecycle): in a pass over an object being deleted no
\* Reconcile is called; a component that can finalize and whose marker was
\* present has, once the loop is past it, had Finalize called exactly once; if
\* that call reported not-done the marker is still on the object, in memory and
\* in the store; and a marker the pass found is gone, in memory or in the store,
\* only if Finalize reported done in this pass.
C2_FinalizerLifecycle ==
    (InPass /\ obj.deleting) =>
        \A i \in Steps :
            /\ hist[i].op # "reconcile"
            /\ (Past(i) /\ components[i].finalizer /\ i \in cleanObj.finalizers) =>
                    /\ hist[i].op = "finalize" /\ hist[i].calls = 1
                    /\ ~hist[i].done =>
                        /\ i \in obj.finalizers
                        /\ store.exists => i \in store.finalizers
            /\ (i \in cleanObj.finalizers
                    /\ (i \notin obj.finalizers \/ i \notin store.finalizers)) =>
                    hist[i].op = "finalize" /\ hist[i].done

\* Witness of C2: the second pass of a deletion, where one Finalize reported
\* not-done a second time and another reported done.
C2_Witness ==
    /\ Completed /\ obj.deleting
    /\ \E i, j \in Steps :
        /\ hist[i].op = "finalize" /\ ~hist[i].done /\ i \in store.finalizers
        /\ hist[j].op = "finalize" /\ hist[j].done /\ j \notin store.finalizers
        /\ j \in cleanObj.finalizers

SecondQuietPass == Completed /\ Deterministic /\ quiet = 2

\* The stored object is as the pass found it: finalizers and conditions.
StoreAsFound ==
    /\ store.finalizers = cleanObj.finalizers
    /\ store.conditions = cleanObj.conditions

C5_RequeueMerge ==
    InPass =>
        /\ result.Requeue = returned.requeue
        /\ result.RequeueAfter =
                IF returned.afters = {} THEN 0 ELSE MinOf(returned.afters)
        /\ Completed => ret.result = result

\* Witness of C5: calls of one pass returned 30, 10 and Requeue; the pass
\* returns 10 and Requeue.
C5_Witness ==
    /\ Completed
    /\ returned.afters = {10, 30} /\ ret.result.RequeueAfter = 10
    /\ ret.result.Requeue
    /\ errors = <<>>

\* The status an error stands for, read off the declared name: True when the
\* name carries the leading "!", False otherwise.
ErrorStatus(i) ==
    IF Head(components[i].comp.ready) = "!" THEN "True" ELSE "False"

\* C6 (error polarity): once the loop is past a component that declares a
\* ready condition and whose Reconcile or Finalize failed in this pass, the
\* condition has the status an error stands for (False, or True for a negated
\* name) with reason Error, whatever the call itself had set.
C6_ErrorPolarity ==
    \A i \in Steps :
        (InPass /\ Past(i) /\ HasCond(i) /\ hist[i].failed) =>
            /\ CondOf(i).Status = ErrorStatus(i)
            /\ CondOf(i).Reason = "Error"
            /\ CondOf(i).Message = i
            /\ (Completed /\ store.exists) =>
                    store.conditions[components[i].readyCondition] = CondOf(i)

\* Witness of C6: a failed Finalize of a component with a negated name that
\* had set its condition itself, next to a failed call under a plain name.
C6_Witness ==
    /\ Completed /\ store.exists
    /\ \E i, j \in Steps :
        /\ hist[i].op = "finalize" /\ hist[i].failed /\ hist[i].cond = "False"
        /\ Head(components[i].comp.ready) = "!" /\ CondOf(i).Status = "True"
        /\ hist[j].failed /\ hist[j].cond = "True" /\ CondOf(j).Status = "False"

\* C7 as stated: once the loop is past a component that declares a ready
\* condition and that was not called in this pass, or whose call succeeded
\* without setting the condition, the condition is Unknown.
C7_UnknownWhenSkipped ==
    \A i \in Steps :
        (InPass /\ Past(i) /\ HasCond(i)
            /\ (hist[i].op = "idle" \/ (~hist[i].failed /\ hist[i].cond = "none")))
        => CondOf(i).Status = "Unknown"

(***************************************************************************)
(* Properties of the template component.                                   *)
(***************************************************************************)
\* The latest call rendered its template and went on to the API server.
Ran == last.op \in {"create", "delete"}

\* The rendered target carries the delete directive.
Directive == templ.delete = "true"

\* Owner reference r names the Managed Resource: same group, kind and name.
Names(r) ==
    /\ Len(r.APIVersion) = 2 /\ r.APIVersion[1] = Owner.Group
    /\ r.Kind = Owner.Kind /\ r.Name = Owner.Name

\* Target t exists and no controller reference on it names the Managed
\* Resource.
Unowned(t) == t.exists /\ \A r \in t.owners : r.Controller => ~Names(r)

\* Target t exists under a controller reference naming the Managed Resource.
Owned(t) == t.exists /\ \E r \in t.owners : r.Controller /\ Names(r)

\* The condition the call set is True with the given reason, if the
\* component has a condition type; it sets none otherwise.
SetTrue(reason) ==
    IF templ.conditionType # ""
    THEN last.cond = [Status |-> "True", Reason |-> reason]
    ELSE last.cond = NoCondSet

\* C8 (delete flow never removes what it does not own): when the rendered
\* target carries the delete directive and the call fetched a current target
\* that has no controller owner reference, or one whose group, kind or name
\* differs from the Managed Resource, the call sent no Delete and no Patch,
\* the target is as it was, the call returned success, and the condition (if
\* a condition type is configured) is True with reason UpstreamNotOwned.
C8_NeverDeletesUnowned ==
    (Ran /\ Directive /\ last.get # "error" /\ Unowned(last.before)) =>
        /\ last.del = "" /\ last.patch = ""
        /\ target = last.before
        /\ last.err = ""
        /\ SetTrue("UpstreamNotOwned")

\* Witness of C8: a call with a condition type left alone a target controlled
\* by an object of another group.
C8_Witness ==
    /\ Ran /\ Directive /\ last.get = "ok" /\ templ.conditionType # ""
    /\ \E r \in last.before.owners :
          r.Controller /\ r.APIVersion = <<"h", "v1">> /\ r.Kind = Owner.Kind
          /\ r.Name = Owner.Name
    /\ target.exists /\ last.err = ""
    /\ last.cond = [Status |-> "True", Reason |-> "UpstreamNotOwned"]

\* C9 (delete flow for owned or absent targets): with the delete directive,
\* an absent target yields success, no Delete and condition True
\* (UpstreamDoesNotExist); a fetched target owned by the Managed Resource is
\* sent a Delete, and when the Delete succeeds or answers NotFound the call
\* succeeds, the target is gone and the condition is True
\* (UpstreamDoesNotExist); any other fetch or delete error is returned as the
\* error of the call.
C9_DeleteFlow ==
    (Ran /\ Directive) =>
        /\ (~last.before.exists /\ last.get # "error") =>
              /\ last.del = "" /\ last.err = ""
              /\ SetTrue("UpstreamDoesNotExist")
        /\ (Owned(last.before) /\ last.get # "error") =>
              /\ last.del \in {"ok", "notfound", "error"}
              /\ last.del # "error" =>
                    /\ last.err = "" /\ ~target.exists
                    /\ SetTrue("UpstreamDoesNotExist")
        /\ last.get = "error" => (last.err # "" /\ last.del = "")
        /\ last.del = "error" => last.err # ""

\* Witness of C9: the Delete of an owned target was answered NotFound, and
\* the call succeeded with the condition True.
C9_Witness ==
    /\ Ran /\ Directive /\ Owned(last.before) /\ last.del = "notfound"
    /\ last.err = "" /\ ~target.exists
    /\ last.cond = [Status |-> "True", Reason |-> "UpstreamDoesNotExist"]

\* The latest call applied the rendered target and the API server took it.
Applied == last.op = "create" /\ last.patch = "ok"

C10_WitnessRepeat ==
    /\ Applied /\ last.repeat /\ target = last.before
    /\ \E f \in Fields \ DOMAIN templ.fields : target.fields[f] # Absent

\* The latest call went through the apply flow of a component with a
\* condition type whose template names an upstream condition type, and
\* returned success.
Mirrored ==
    /\ last.op = "create" /\ last.err = ""
    /\ templ.conditionType # "" /\ templ.condition # ""

\* The status of the target's condition of the type the template names,
\* Unknown when the target has no status, no condition list or no such
\* condition.
UpstreamOf(t) ==
    LET named == {c \in t.conditions.items : c.type = templ.condition} IN
    IF t.conditions.status /\ t.conditions.list /\ named # {}
    THEN (CHOOSE c \in named : TRUE).status
    ELSE "Unknown"

\* C11 (condition mirroring): in the apply flow with a condition type and a
\* condition-source annotation naming type T, the condition the call sets
\* has the status of the target's condition of type T as the target is after
\* the apply, and Unknown when the target has no status, no condition list or
\* no condition of type T.
C11_ConditionMirroring ==
    Mirrored => (last.cond # NoCondSet /\ last.cond.Status = UpstreamOf(target))

\* Witness of C11: the target reports Available = False next to nothing else,
\* and the call set the condition False.
C11_Witness ==
    /\ Mirrored /\ last.cond.Status = "False"
    /\ UpstreamCondition("Available", "False") \in target.conditions.items

\* A call mirrored Unknown from a target whose conditions are of another type.
C11_WitnessAbsent ==
    /\ Mirrored /\ last.cond.Status = "Unknown"
    /\ UpstreamCondition("Progressing", "True") \in target.conditions.items

\* C12 as stated (control annotations stripped): the object an apply has
\* stored carries neither the delete annotation nor the condition annotation.
C12_BothStripped ==
    Applied =>
        \A a \in target.annotations :
            a[1] \notin {DELETE_ANNOTATION, CONDITION_ANNOTATION}

\* C12 as amended: the object an apply has stored carries neither the delete
\* annotation nor the deepEquals annotation, and carries the condition
\* annotation exactly as the template rendered it.
C12_DeleteAndDeepEqualsStripped ==
    Applied =>
        /\ \A a \in target.annotations :
              a[1] \notin {DELETE_ANNOTATION, DEEPEQUALS_ANNOTATION}
        /\ \A v \in {"Available"} :
              <<CONDITION_ANNOTATION, v>> \in target.annotations <=> templ.condition = v

\* Witness of C12: the template rendered the delete annotation as "false" and
\* a condition annotation; the stored object carries the second only.
C12_Witness ==
    /\ Applied /\ templ.delete = "false" /\ templ.condition = "Available"
    /\ target.annotations = {<<CONDITION_ANNOTATION, "Available">>}

(***************************************************************************)
(* Properties of the engine: the end of a pass.                            *)
(***************************************************************************)
\* The components whose Reconcile or Finalize returned an error in this pass.
FailedSteps == {i \in Steps : hist[i].op \in {"reconcile", "finalize"} /\ hist[i].failed}

\* Reconcile returned from its last line after two patches that were applied.
PatchedAndReturned ==
    pc = "done" /\ ret.via = "end" /\ patched = {"metadata", "status"}

\* The entries of the returned error.
Listed == {ret.err.list[n] : n \in DOMAIN ret.err.list}

\* C21 as stated (final error): after a pass whose patches succeeded,
\* Reconcile returns nil if no component failed, the error of the component
\* if exactly one failed, and else one combined error that lists the error
\* of each failed component, once.
C21_FinalError ==
    PatchedAndReturned =>
        /\ FailedSteps = {} => ret.err = NilError
        /\ Cardinality(FailedSteps) = 1 =>
              /\ ret.err.kind = "single"
              /\ \A e \in Listed : e.cause \in FailedSteps /\ e.name = e.cause
        /\ Cardinality(FailedSteps) > 1 =>
              /\ ret.err.kind = "multi"
              /\ Len(ret.err.list) = Cardinality(FailedSteps)
              /\ {e.cause : e \in Listed} = FailedSteps
              /\ \A e \in Listed : e.name = e.cause

\* What holds instead: the returned error is built from ctx.errors alone,
\* and while the object is alive ctx.errors holds one entry per failed
\* component.
C21_FinalErrorOfList ==
    PatchedAndReturned =>
        /\ Len(errors) = 0 => ret.err = NilError
        /\ Len(errors) = 1 => ret.err = [kind |-> "single", list |-> errors]
        /\ Len(errors) > 1 => ret.err = [kind |-> "multi", list |-> errors]
        /\ ~obj.deleting =>
              /\ Len(errors) = Cardinality(FailedSteps)
              /\ {e.cause : e \in Listed} = FailedSteps
              /\ \A e \in Listed : e.name = e.cause

\* The case: one Finalize failed, the next component had nothing to finalize,
\* and the returned error is a combined one.
C21_OneFailedCombined ==
    /\ PatchedAndReturned /\ obj.deleting
    /\ Cardinality(FailedSteps) = 1
    /\ ret.err.kind = "multi"

\* The flushes of the ledger in the pass so far.
RECURSIVE FlushesUpTo(_)
FlushesUpTo(n) == IF n = 0 THEN 0 ELSE hist[n].flushes + FlushesUpTo(n - 1)

Flushes == FlushesUpTo(NSteps)

\* The pass has left the component loop.
PastLoop ==
    \/ pc \in {"patchMeta", "patchStatus"}
    \/ pc = "done" /\ ret.via \in {"end", "panic", "patchMetadata", "patchStatus"}

\* The components the loop has got through in this pass.
Processed == {i \in Steps : hist[i].op # "none"}

FlushFailed == GetConditionsFor(obj) = "error" /\ Flushes > 0

\* C23 as stated (flush failure): a pass in which a flush of the ledger
\* failed and whose patches went through returns an error that is not nil,
\* whether or not a component failed.
C23_FlushFailureReported ==
    (pc = "done" /\ ret.via \in {"end", "panic"} /\ FlushFailed) =>
        ret.err.kind \in {"single", "multi"}

\* What the pass does report: the error of a failed flush is dropped, and the
\* entry made for it carries the error of the component, nil when the component
\* did not fail.
C23_FlushEntryCarriesStepError ==
    (pc = "done" /\ ret.via \in {"end", "panic"} /\ FlushFailed) =>
        /\ ~obj.deleting =>
              \A n \in DOMAIN errors :
                  errors[n].what = "condition flush" =>
                      errors[n].cause =
                          (IF hist[errors[n].name].failed THEN errors[n].name ELSE 0)
        /\ FailedSteps = {} => ret.err.kind \in {"nil", "panic"}

\* The case: a flush failed, no component failed, and Reconcile returns nil.
C23_NilReturned ==
    /\ pc = "done" /\ ret.via = "end" /\ FlushFailed
    /\ FailedSteps = {}
    /\ ret.err = NilError

\* The components whose Reconcile or Finalize was called in this pass.
CalledSteps == {i \in Steps : hist[i].calls > 0}

\* C25 (sequential, once, shared data): in a pass the components are called
\* in the order of registration, each at most once, Reconcile for an object
\* that is alive and Finalize for one that is being deleted, whatever the
\* calls returned; and the value a component put into ctx.Data is in the
\* ctx.Data every later component of the pass is called with.
C25_InOrderOnceSharedData ==
    (pc = "loop" \/ PastLoop) =>
        /\ \A i \in Steps :
              /\ hist[i].calls <= 1
              /\ hist[i].calls = 1 <=> hist[i].op \in {"reconcile", "finalize"}
              /\ hist[i].op = "reconcile" => ~obj.deleting
              /\ hist[i].op = "finalize" => obj.deleting
              /\ pc = "loop" /\ i >= idx => hist[i].op = "none"
        /\ \A i, j \in CalledSteps :
              i < j =>
                  /\ hist[i].seq < hist[j].seq
                  /\ components[i].comp.writes => hist[j].saw[i] = i

\* The case: the first component wrote and failed, and the last component
\* was called with what it wrote.
C25_Witness ==
    /\ PastLoop /\ CalledSteps = Steps
    /\ hist[1].failed /\ components[1].comp.writes
    /\ hist[NSteps].saw[1] = 1

\* The case: a component asked for a requeue, and every component was called
\* once all the same.
C25_WitnessRequeue ==
    /\ PastLoop /\ CalledSteps = Steps
    /\ returned.requeue
    /\ \A i \in Steps : hist[i].calls = 1

\* C26 (fetch NotFound): when the fetch answers NotFound, Reconcile returns
\* the empty Result and a nil error, no component is called and no patch is
\* sent.
C26_NotFoundSilent ==
    (pc = "done" /\ ret.via = "notFound") =>
        /\ ret.result = EmptyResult
        /\ ret.err = NilError
        /\ \A i \in Steps : hist[i] = NoHist
        /\ patched = {}
        /\ ctxData = EmptyData /\ pending = EmptyConds /\ errors = <<>>

\* The case: the object is gone from the store, after a pass that removed
\* its last marker, and a pass has just found it missing.
C26_Witness ==
    /\ pc = "done" /\ ret.via = "notFound"
    /\ ~store.exists /\ store.deleting

\* C27 (skip-reconcile annotation): a pass that finds the annotation with
\* the value "true" calls no component, changes no condition and no finalizer,
\* sends no patch and returns the empty Result with a nil error; a pass takes
\* this exit for the value "true" only, and goes into the component loop when
\* the annotation is absent or holds another value.
C27_SkipAnnotation ==
    /\ (pc = "done" /\ ret.via = "blocked") =>
          /\ store.skip = "true"
          /\ ret.result = EmptyResult /\ ret.err = NilError
          /\ \A i \in Steps : hist[i] = NoHist
          /\ patched = {}
          /\ obj = cleanObj /\ obj.finalizers = store.finalizers
          /\ obj.conditions = store.conditions
          /\ pending = EmptyConds /\ errors = <<>>
    /\ (pc = "loop" \/ PastLoop) => store.skip \in {"absent", "false"}

\* The case: an object that is being deleted and holds a marker carries the
\* annotation with "true", and the pass left it alone.
C27_Witness ==
    /\ pc = "done" /\ ret.via = "blocked"
    /\ store.deleting /\ store.finalizers # {}

\* The case: the annotation holds another value, and the pass called the
\* components and sent its patches.
C27_WitnessOtherValue ==
    /\ pc = "done" /\ ret.via = "end" /\ store.skip = "false"
    /\ CalledSteps = Steps
    /\ patched = {"metadata", "status"}

\* The case: no annotation, and the pass called the components.
C27_WitnessAbsent ==
    /\ pc = "done" /\ ret.via = "end" /\ store.skip = "absent"
    /\ CalledSteps = Steps

\* A patch of this pass was answered with NotFound.
PatchNotFound == patched \cap {"metadataNotFound", "statusNotFound"} # {}

\* The Result merged from the hints the calls of this pass returned.
MergedHints ==
    [Requeue |-> returned.requeue,
     RequeueAfter |-> IF returned.afters = {} THEN 0 ELSE MinOf(returned.afters)]

\* C28 (NotFound on a patch): a NotFound answer to the metadata patch or to
\* the status patch does not end the pass with the error of the patch; the
\* pass returns the merged Result and the error made of the errors of the
\* components, nil when no component failed.
C28_NotFoundPatchSwallowed ==
    /\ (pc = "done" /\ ret.via = "patchMetadata") => "metadataNotFound" \notin patched
    /\ (pc = "done" /\ ret.via = "patchStatus") => "statusNotFound" \notin patched
    /\ (pc = "done" /\ ret.via = "end" /\ PatchNotFound) =>
          /\ ret.result = MergedHints
          /\ ret.err = FinalError(errors)
          /\ FailedSteps = {} => ret.err = NilError
          /\ FailedSteps # {} => ret.err.kind \in {"single", "multi"}

\* The case: the metadata patch went through, the object was gone when the
\* status patch came, no component had failed, and the pass reports success.
C28_Witness ==
    /\ pc = "done" /\ ret.via = "end"
    /\ patched = {"metadata", "status", "statusNotFound"}
    /\ CalledSteps # {} /\ FailedSteps = {}
    /\ ret.err = NilError

\* The case: both patches were answered with NotFound after a component
\* failed, and the pass returns the error of the component.
C28_WitnessStepError ==
    /\ pc = "done" /\ ret.via = "end"
    /\ {"metadataNotFound", "statusNotFound"} \subseteq patched
    /\ FailedSteps # {}
    /\ ret.err.kind = "single"

C29_WitnessMetadataFailed ==
    /\ pc = "done" /\ ret.via = "patchMetadata"
    /\ "status" \notin patched
    /\ obj.conditions # store.conditions

\* A component of this pass returned SkipRemaining.
Skipped == \E i \in Steps : hist[i].skip

\* What holds of a pass in which component i returned SkipRemaining.
AfterSkip(i) ==
    /\ pc # "loop"
    /\ \A j \in Steps : j > i => hist[j] = NoHist
    /\ result = MergedHints
    /\ hist[i].failed => \E n \in DOMAIN errors : errors[n].name = i /\ errors[n].cause = i
    /\ pc = "done" => "metadata" \in patched
    /\ pc = "done" /\ ret.via # "patchMetadata" => "status" \in patched
    /\ pc = "done" /\ ret.via = "end" =>
          ret.result = MergedHints /\ ret.err = FinalError(errors)

\* C30 (SkipRemaining): when a component returns SkipRemaining, no later
\* component is called in that pass, the Result and the error of the component
\* are merged all the same, and the metadata patch and the status patch are
\* sent; and every pass that goes into the loop, the one after such a pass
\* included, starts at the first component with an empty history.
C30_SkipRemaining ==
    [][/\ \A i \in Steps : hist'[i].skip => AfterSkip(i)'
       /\ pc = "idle" /\ pc' = "loop" =>
             idx' = 1 /\ hist' = [i \in Steps |-> NoHist] /\ result' = EmptyResult
      ]_vars

\* The case: the first component failed and returned SkipRemaining; the
\* others were not called, both patches were applied and the error of the
\* component is returned.
C30_Witness ==
    /\ pc = "done" /\ ret.via = "end" /\ patched = {"metadata", "status"}
    /\ hist[1].skip /\ hist[1].failed
    /\ CalledSteps = {1}
    /\ ret.err.kind = "single"

\* The case: the component that returned SkipRemaining asked for a requeue,
\* and the pass returns the requeue.
C30_WitnessRequeue ==
    /\ pc = "done" /\ ret.via = "end"
    /\ Skipped /\ CalledSteps # Steps
    /\ ret.result.Requeue /\ ret.result.RequeueAfter # 0

(***************************************************************************)
(* Properties of the engine: errors, markers and conditions across passes. *)
(***************************************************************************)
\* C39 (fetch error): when the fetch fails with an error other than
\* NotFound, Reconcile returns Requeue = true and an error that is not nil,
\* no component is called and no patch is sent.
C39_GetErrorRequeues ==
    (pc = "done" /\ ret.via = "getError") =>
        /\ ret.result.Requeue
        /\ ret.err # NilError /\ ret.err.kind = "get"
        /\ \A i \in Steps : hist[i] = NoHist
        /\ patched = {}
        /\ ctxData = EmptyData /\ pending = EmptyConds /\ errors = <<>>

\* The case: the fetch failed for an object that is in the store, is being
\* deleted and still holds a marker.
C39_Witness ==
    /\ pc = "done" /\ ret.via = "getError"
    /\ store.exists /\ store.deleting /\ store.finalizers # {}

\* A pass that went into the component loop has ended.
PassEnded == pc = "done" /\ ret.via \notin {"notFound", "getError", "blocked"}

\* C33 as stated (a Step failure is never lost): a pass in which a component
\* returned an error ends with Reconcile returning an error that is not nil,
\* whether or not a flush or a patch failed too.
C33_StepFailureReturned ==
    (PassEnded /\ FailedSteps # {}) => ret.err.kind \notin {"nil", "panic"}

\* The case: a component failed, a flush returned an error, and Reconcile
\* panicked while it built the final error.
C33_PanicsOnNilEntry ==
    /\ PassEnded /\ FailedSteps # {} /\ FlushFailed
    /\ ret.via = "panic"
    /\ \E n \in DOMAIN errors : errors[n].cause = 0

\* C34 (no marker after deletion): a pass over an object it fetched as being
\* deleted adds no marker to ctx.Object, and no step of any pass adds a marker
\* to the stored object once its deletion has been requested: its markers
\* can only go.
C34_MarkersOnlyShrink ==
    [][/\ (store.exists /\ store.deleting) => store'.finalizers \subseteq store.finalizers
       /\ obj'.deleting => obj'.finalizers \subseteq cleanObj'.finalizers
      ]_vars

\* The case: a pass over an object being deleted took one of its markers
\* off and left another on, and the store holds what is left.
C34_Witness ==
    /\ pc = "done" /\ ret.via = "end" /\ patched = {"metadata", "status"}
    /\ obj.deleting /\ store.deleting
    /\ store.finalizers # {} /\ store.finalizers # cleanObj.finalizers
    /\ store.finalizers \subseteq cleanObj.finalizers

\* The case: deletion was requested while a pass over the live object was
\* under way; the metadata patch with the markers the pass added was refused.
C34_WitnessRefused ==
    /\ pc = "done" /\ ret.via = "patchMetadata"
    /\ ~obj.deleting /\ store.deleting
    /\ ~(obj.finalizers \subseteq store.finalizers)

\* The status the pass gave the condition of component i, which was called:
\* the error status when the call failed, else what the component set itself,
\* else the Unknown the engine set before the call.
Produced(i) ==
    IF hist[i].failed THEN components[i].errorConditionStatus
    ELSE IF hist[i].cond # "none" THEN hist[i].cond
    ELSE "Unknown"

\* The keys a ready status component takes to aggregate the components
\* before component j: the type of each declared condition, behind "-" when
\* the condition is a negated one.
RECURSIVE KeysBefore(_)
KeysBefore(j) ==
    IF j = 1 THEN <<>>
    ELSE LET rc == components[j - 1] IN
         IF rc.readyCondition = <<>> THEN KeysBefore(j - 1)
         ELSE Append(KeysBefore(j - 1),
                     IF rc.errorConditionStatus = "True"
                     THEN <<"-">> \o rc.readyCondition
                     ELSE rc.readyCondition)

\* A condition list of the engine as the list the ready status component reads.
AsReadyObj(held) == {[type |-> c[1], status |-> c[2]] : c \in held}

\* The Ready status a ready status component registered at position j, over
\* the components before it, computes from the list ctx.Object had when
\* component j was called.
ReadyAt(j) ==
    ReadyReconcile(NewReadyStatusComponent(KeysBefore(j)), AsReadyObj(hist[j].had)).Status

\* The components before j that declare a condition.
DeclaredBefore(j) == {i \in Steps : i < j /\ components[i].readyCondition # <<>>}

\* C36 (conditions visible to later Steps): when a component is called, the
\* condition list of ctx.Object holds, for every component called before it
\* in the pass, the condition that component's iteration produced; so a ready
\* status component at its place reports True exactly when every component
\* before it produced its good status in this pass.
C36_EarlierConditionsVisible ==
    \A j \in CalledSteps :
        (1..j \subseteq CalledSteps) =>
            /\ \A i \in DeclaredBefore(j) :
                  <<components[i].readyCondition, Produced(i), obj.generation>> \in hist[j].had
            /\ ReadyAt(j) = "True" <=>
                  \A i \in DeclaredBefore(j) :
                      Produced(i) = (IF components[i].errorConditionStatus = "True"
                                     THEN "False" ELSE "True")

\* The case: the store held True for the condition of a component, the
\* component failed in this pass, and the last component was called with the
\* error status on the list: Ready over it is False.
C36_Witness ==
    /\ CalledSteps = Steps
    /\ \E i \in DeclaredBefore(NSteps) :
          /\ cleanObj.conditions[components[i].readyCondition].Status = "True"
          /\ hist[i].failed /\ Produced(i) = "False"
          /\ \E c \in hist[NSteps].had :
                c[1] = components[i].readyCondition /\ c[2] = "False"
    /\ ReadyAt(NSteps) = "False"

\* The case: every declared condition before the last component was set
\* good in this pass, after a pass that had left one of them Unknown.
C36_WitnessReady ==
    /\ CalledSteps = Steps
    /\ Cardinality(DeclaredBefore(NSteps)) = 2
    /\ \E i \in DeclaredBefore(NSteps) :
          cleanObj.conditions[components[i].readyCondition].Status = "Unknown"
    /\ ReadyAt(NSteps) = "True"

\* Component i declares a condition and every call of it ends with a
\* terminal status for it: the call fails, or it sets the condition itself.
Terminal(i) ==
    /\ components[i].readyCondition # <<>>
    /\ components[i].comp.fails = {TRUE} \/ "none" \notin components[i].comp.conds

\* Component i is called in every pass over the object as the store holds it:
\* the object is alive, or it is being deleted and holds the marker of i.
Reports(i) ==
    \/ ~store.deleting
    \/ components[i].finalizer /\ ContainsFinalizer(store.finalizers, components[i].name)

\* A pass is under way or has just returned, with ctx.Object still at hand.
ObjectAtHand == pc \in {"loop", "patchMeta", "patchStatus", "done"}

\* C37 (no Unknown flicker): once a complete pass has gone by, and while
\* every call of a component ends with a terminal status for its condition,
\* neither the stored condition list nor the list of ctx.Object holds Unknown
\* (or nothing) for that condition at any point, though every pass writes
\* Unknown for it before the call.
C37_NoUnknownAgain ==
    (Deterministic /\ quiet >= 1) =>
        \A i \in Steps :
            (Terminal(i) /\ Reports(i)) =>
                /\ store.conditions[components[i].readyCondition].Status \in {"True", "False"}
                /\ ObjectAtHand =>
                      obj.conditions[components[i].readyCondition].Status =
                          store.conditions[components[i].readyCondition].Status

\* The case: in the pass after a complete one the loop has been through the
\* first component, whose call set its condition after the engine had written
\* Unknown for it, and the others are still to come.
C37_Witness ==
    /\ Deterministic /\ quiet >= 1
    /\ pc = "loop" /\ idx = 2
    /\ Terminal(1) /\ hist[1].calls = 1
    /\ obj.conditions[components[1].readyCondition].Status \in {"True", "False"}

\* The case: the same for a component whose Finalize fails in pass after pass
\* on an object being deleted.
C37_WitnessFinalize ==
    /\ Deterministic /\ quiet >= 1
    /\ PastLoop /\ obj.deleting
    /\ \E i \in Steps : Terminal(i) /\ Reports(i) /\ hist[i].op = "finalize" /\ hist[i].failed

(***************************************************************************)
(* Properties of the conditions helper.                                    *)
(***************************************************************************)
\* The entries of the type t in a condition list, in their order.
EntriesOf(list, t) == SelectSeq(list, LAMBDA e : e.Type = t)

\* The status, reason and message of an entry.
EntryValues(e) == [Status |-> e.Status, Reason |-> e.Reason, Message |-> e.Message]

\* C24 (ledger buffering): a Set changes the buffer and not the condition
\* list; after Sets and a Flush the list holds exactly one entry for every
\* type that was set, with the status, reason and message of the last Set for
\* it, the entries of the other types are as they were, and the buffer is
\* empty; a Flush right after a Flush changes nothing.
C24_LedgerBuffering ==
    /\ helperHist.op = "set" => helper.conditions = helperHist.prior
    /\ helperHist.op = "flush" =>
          /\ helper.pending = EmptyConds
          /\ \A t \in LedgerTypes :
                IF helperHist.written[t] # NoWrite
                THEN /\ Len(EntriesOf(helper.conditions, t)) = 1
                     /\ EntryValues(EntriesOf(helper.conditions, t)[1]) = helperHist.written[t]
                ELSE EntriesOf(helper.conditions, t) = EntriesOf(helperHist.before, t)
          /\ \A n \in DOMAIN helper.conditions : helper.conditions[n].Type \in LedgerTypes
          /\ helperHist.again => helper.conditions = helperHist.prior

\* The case: a Flush after Sets of which one replaced the values an earlier
\* Set had buffered for the same type, on a list that held an entry of
\* the type that was not set.
C24_Witness ==
    /\ helperHist.op = "flush" /\ ~helperHist.again
    /\ helperHist.overwrote
    /\ \E t \in LedgerTypes :
          helperHist.written[t] = NoWrite /\ Len(EntriesOf(helperHist.before, t)) = 1
    /\ Len(helper.conditions) = 2

\* The case: a Flush right after a Flush that had conditions to apply.
C24_WitnessSecondFlush ==
    /\ helperHist.op = "flush" /\ helperHist.again
    /\ helperHist.written # NoWrites

(***************************************************************************)
(* Properties of the ready status component.                               *)
(***************************************************************************)
\* Reconcile of the component has run on the conditions the object holds now.
ReadyComputed == readySet # NoReadySet

\* The condition a key names is on the object with the status the key asks
\* for: True for a plain key, False for a key behind "-".
Satisfied(key) ==
    \E c \in readyObj :
        /\ c.type = (IF key[1] = "-" THEN Tail(key) ELSE key)
        /\ c.status = (IF key[1] = "-" THEN "False" ELSE "True")

C13_WitnessUnknown ==
    /\ ReadyComputed /\ readySet.Status = "False"
    /\ readyComp.keys = <<<<"One">>>>
    /\ readyObj = {[type |-> <<"One">>, status |-> "Unknown"]}

\* The configured keys that are not satisfied, in the order they were given.
UnmetKeys == SelectSeq(readyComp.keys, LAMBDA k : ~Satisfied(k))

\* C14 as stated (message names the unmet keys): when the component sets
\* Ready to False, the keys its message lists are the configured keys that
\* are not satisfied, and no satisfied key.
C14_MessageNamesUnmet ==
    (ReadyComputed /\ readySet.Status = "False") =>
        readySet.Message[4] = Join(UnmetKeys, ", ")

\* What the code does instead: the message lists every configured key.
C14_MessageNamesAllKeys ==
    ReadyComputed => readySet.Message[4] = Join(readyComp.keys, ", ")

\* The case of the test: keys One and Two, only Two unmet, and the message
\* lists both.
C14_BothListed ==
    /\ ReadyComputed /\ readySet.Status = "False"
    /\ readyComp.keys = <<<<"One">>, <<"Two">>>>
    /\ readyObj = {[type |-> <<"One">>, status |-> "True"],
                   [type |-> <<"Two">>, status |-> "False"]}
    /\ readySet.Message[4] = <<"One", ", ", "Two">>

(***************************************************************************)
(* Properties of the random secret component.                              *)
(***************************************************************************)
\* The latest call of the component succeeded and nothing has touched the
\* Secret since.
Succeeded == secretLast.op = "reconcile" /\ secretLast.err = ""

\* The keys the component was configured with: those given to its
\* constructor, or "password" if none was given.
Configured ==
    IF secretComp.args = <<>> THEN {"password"} ELSE Range(secretComp.args)

\* Key k had no value, or an empty one, in the data map m.
Missing(m, k) == IF k \in DOMAIN m THEN m[k].len = 0 ELSE TRUE

\* Key k holds a generated value in the data map m.
Generated(m, k) ==
    IF k \in DOMAIN m THEN m[k].len = 43 /\ m[k].bytes \in 1..MaxRandom ELSE FALSE

\* C15 (secret generation): after a successful Reconcile, every configured
\* key whose stored value was absent or empty holds a generated value of 43
\* characters in the Secret, and ctx.Data holds, under every configured key,
\* exactly the value the Secret stores.
C15_SecretGeneration ==
    Succeeded =>
        \A k \in Configured :
            /\ Missing(secretLast.before, k) => Generated(secret.data, k)
            /\ k \in DOMAIN secret.data
            /\ k \in DOMAIN secretLast.data
            /\ secretLast.data[k] = secret.data[k]

\* Witness of C15: a component created without keys ran while no Secret
\* existed, and the Secret now holds a generated password.
C15_Witness ==
    /\ Succeeded /\ secretComp.args = <<>>
    /\ secretLast.before = NoData
    /\ secret.exists /\ Generated(secret.data, "password")
    /\ secretLast.data["password"] = secret.data["password"]

\* A stored value that was set to empty is generated again.
C15_WitnessEmptied ==
    /\ Succeeded /\ secretComp.args = <<"token">>
    /\ "token" \in DOMAIN secretLast.before
    /\ secretLast.before["token"] = EmptyValue
    /\ Generated(secret.data, "token")

\* C16 (secret stability): a Reconcile that finds every configured key
\* holding a non-empty value leaves the Secret as it is and sends no Patch.
C16_SecretStability ==
    [][(/\ secretLast'.op = "reconcile"
        /\ \A k \in Range(secretComp.keys) : ~Missing(secret.data, k))
       => (secret' = secret /\ ~secretLast'.patched)]_vars

\* Witness of C16: a pass over a Secret whose configured keys all hold values
\* the component generated in an earlier pass; nothing was sent.
C16_Witness ==
    /\ Succeeded /\ ~secretLast.patched
    /\ secretComp.keys = <<"password", "token">>
    /\ secret.managed = {"password", "token"}
    /\ \A k \in Range(secretComp.keys) :
          Generated(secret.data, k) /\ secretLast.before[k] = secret.data[k]

\* C17 (other keys preserved): after a Reconcile that generated values and
\* applied them, every key of the Secret that is not configured on the
\* component is still there with the value it had.
C17_OtherKeysPreserved ==
    (Succeeded /\ secretLast.patched) =>
        \A k \in DOMAIN secretLast.before \ Range(secretComp.keys) :
            /\ k \in DOMAIN secret.data
            /\ secret.data[k] = secretLast.before[k]

\* Witness of C17: the Secret held a key of another writer; the component
\* generated its password and the other key is as it was.
C17_Witness ==
    /\ Succeeded /\ secretLast.patched
    /\ secretComp.keys = <<"password">>
    /\ "other" \in DOMAIN secretLast.before
    /\ secretLast.before["other"].len = 1
    /\ Generated(secret.data, "password")
    /\ secret.data["other"] = secretLast.before["other"]

(***************************************************************************)
(* Properties of the event predicates.                                     *)
(***************************************************************************)
\* Method on of predicate by has run on the event.
Decided(by, on) == verdict.by = by /\ verdict.on = on

\* Everything of an object but its generation, resource version and managed
\* fields.
Rest(o) == [form |-> o.form, gvk |-> o.gvk, hasData |-> o.hasData, data |-> o.data]

\* C18 (structural-equality predicate): Update of the deepEquals predicate
\* says process iff the old and the new object differ in something other
\* than generation, resource version and managed fields.
C18_StructuralEquality ==
    Decided("deepEquals", "update") =>
        (verdict.result = "true" <=> Rest(evt.old) # Rest(evt.new))

\* Witness of C18: an update that changed generation, resource version and
\* managed fields and nothing else is not processed.
C18_Witness ==
    /\ Decided("deepEquals", "update") /\ verdict.result = "false"
    /\ evt.old.generation # evt.new.generation
    /\ evt.old.resourceVersion # evt.new.resourceVersion
    /\ evt.old.managedFields # evt.new.managedFields

\* An update that changed the data besides is processed.
C18_WitnessData ==
    /\ Decided("deepEquals", "update") /\ verdict.result = "true"
    /\ evt.old.generation # evt.new.generation
    /\ evt.old.data # evt.new.data

\* The payload of an object can be read: it is a typed Secret, or an
\* Unstructured Secret with a data field whose values all decode.
Readable(o) == SecretDataOf(o).ok

\* The payloads of an event differ in the presence or in the value of key k.
PayloadsDiffer(k) ==
    LET old == SecretDataOf(evt.old).data
        new == SecretDataOf(evt.new).data
    IN \/ (k \in DOMAIN old) # (k \in DOMAIN new)
       \/ k \in DOMAIN old /\ k \in DOMAIN new /\ old[k] # new[k]

\* C19 (keyed-payload predicate): on an update whose old and new payloads
\* are both readable, Update of the secretField predicate says process iff
\* the payloads differ in the presence or the value of a configured key.
C19_KeyedPayload ==
    (Decided("secretField", "update") /\ Readable(evt.old) /\ Readable(evt.new)) =>
        /\ verdict.result \in {"true", "false"}
        /\ verdict.result = "true" <=>
              \E k \in Range(secretField.keys) : PayloadsDiffer(k)

\* Witness of C19: an update of an Unstructured Secret that changed a key the
\* predicate is not configured with is not processed.
C19_Witness ==
    /\ Decided("secretField", "update") /\ verdict.result = "false"
    /\ secretField.keys = <<"password">>
    /\ evt.old.form = "Unstructured" /\ evt.new.form = "Unstructured"
    /\ Readable(evt.old) /\ Readable(evt.new)
    /\ "password" \in DOMAIN evt.old.data
    /\ PayloadsDiffer("other")

\* An update that removed a configured key holding an empty value is
\* processed.
C19_WitnessPresence ==
    /\ Decided("secretField", "update") /\ verdict.result = "true"
    /\ secretField.keys = <<"password">>
    /\ Readable(evt.old) /\ Readable(evt.new)
    /\ "password" \in DOMAIN evt.old.data
    /\ SecretDataOf(evt.old).data["password"] = Raw("")
    /\ "password" \notin DOMAIN evt.new.data

\* C20 as stated (never silently drops): the secretField predicate says
\* process for every create, delete and generic event, and for every update
\* whose old or new payload cannot be read.
C20_NeverDrops ==
    (/\ verdict.by = "secretField"
     /\ \/ verdict.on # "update"
        \/ ~Readable(evt.old)
        \/ ~Readable(evt.new)) =>
        verdict.result = "true"

\* What the code does: it says process or panics, and it panics exactly when
\* a value that does not decode is reached.
C20_ProcessOrPanic ==
    (/\ verdict.by = "secretField"
     /\ \/ verdict.on # "update"
        \/ ~Readable(evt.old)
        \/ ~Readable(evt.new)) =>
        /\ verdict.result \in {"true", "panic"}
        /\ verdict.result = "panic" <=>
              \/ SecretDataOf(evt.old).panic
              \/ SecretDataOf(evt.old).ok /\ SecretDataOf(evt.new).panic

\* The case: an update to an Unstructured Secret whose new password is not
\* base64 ends in a panic.
C20_Panics ==
    /\ Decided("secretField", "update") /\ verdict.result = "panic"
    /\ evt.old.form = "Unstructured" /\ Readable(evt.old)
    /\ evt.new.form = "Unstructured"
    /\ "password" \in DOMAIN evt.new.data
    /\ evt.new.data["password"] = Corrupted

(***************************************************************************)
(* Properties of concurrent passes.                                        *)
(***************************************************************************)
\* The Context after the loop went, with nothing else going on, through the
\* calls whose returns script lists, from component i on.
RECURSIVE RunAlone(_, _, _, _)
RunAlone(c, script, i, tag) ==
    IF script = <<>> THEN c
    ELSE RunAlone(Iteration(c, i, Head(script), tag), Tail(script), i + 1, tag)

\* The Context of the invocation for identity p, had it run alone from what
\* it fetched through the calls it has made.
AloneContext(p) ==
    RunAlone(NewPassContext(runs, p, runs[p].run.fetched), runs[p].run.script, 1,
             Tag(p, runs[p].n))

C31_WitnessReturned ==
    /\ runs["x"].run.pc = "done" /\ runs["y"].run.pc = "loop" /\ runs["y"].run.idx > 1
    /\ runs["x"].run.ret.result.RequeueAfter # 0
    /\ runs["x"].run.ret.err.kind = "single"

CreatedByApply == last.op = "create" /\ last.patch = "ok" /\ ~last.before.exists

\* The same, and the template has come to render another delete annotation
\* since.
CreatedEarlier == last.op = "applied" /\ last.patch = "ok" /\ ~last.before.exists

\* C38 (apply/delete round trip): a target the apply flow created carries a
\* controller reference to ctx.Object, also once the template has come to
\* render the delete directive; the delete flow, once its Get is answered, takes the
\* target for owned and sends the Delete, after which the target is gone;
\* and the call after that finds no target and sends no Delete.
C38_RoundTrip ==
    [][/\ (CreatedByApply' \/ CreatedEarlier') =>
             /\ target'.exists
             /\ GetControllerOf(target') # NoRef
             /\ ReferSameObject(GetControllerOf(target'), Owner)
       /\ (CreatedEarlier /\ last'.op = "delete" /\ last'.get # "error") =>
             /\ last'.get = "ok" /\ last'.del # ""
             /\ last'.del \in {"ok", "notfound"} => ~target'.exists
       /\ (last.op = "delete" /\ last.del \in {"ok", "notfound"} /\ last' # last
             /\ last'.op = "delete" /\ last'.get # "error") =>
             /\ last'.get = "notfound" /\ last'.del = ""
             /\ ~target'.exists]_vars

\* The case: the delete flow has deleted a target that the call before it
\* had created.
C38_Witness ==
    /\ last.op = "delete" /\ last.get = "ok" /\ last.del = "ok"
    /\ last.before.exists /\ last.before.managers["image"] = {FieldManager}
    /\ ReferSameObject(GetControllerOf(last.before), Owner)
    /\ ~target.exists

\* The case: the call after a delete found nothing and sent no Delete.
C38_WitnessAbsent ==
    /\ last.op = "delete" /\ last.get = "notfound" /\ last.del = ""
    /\ ~last.before.exists /\ ~target.exists
    /\ templ.delete = "true"

(***************************************************************************)
(* Properties of ContextData.                                              *)
(***************************************************************************)
\* C40 (absence as a value): a GetString of a key that is not in the map
\* returns the empty string with ok = false and does not fail, and a
\* GetString of a key holding a string returns that string with ok = true.
C40_AbsenceIsAValue ==
    fetched.op = "GetString" =>
        /\ fetched.had = NoValue =>
              ~fetched.panic /\ fetched.s = "" /\ ~fetched.ok
        /\ fetched.had.type = "string" =>
              ~fetched.panic /\ fetched.s = fetched.had.v /\ fetched.ok

\* What the code does: the string under a key holding one, with ok = true,
\* and a panic in the type assertion for every other key, in the map or not.
C40_StringOrPanic ==
    fetched.op = "GetString" =>
        IF fetched.had.type = "string"
        THEN ~fetched.panic /\ fetched.s = fetched.had.v /\ fetched.ok
        ELSE fetched.panic

\* The case: a GetString of a key that is not in the map panics.
C40_PanicsOnAbsent ==
    /\ fetched.op = "GetString"
    /\ fetched.had = NoValue /\ shared[fetched.key] = NoValue
    /\ fetched.panic

\* The case: a GetString of a key holding a string returns it.
C40_FindsString ==
    /\ fetched.op = "GetString"
    /\ fetched.had = [type |-> "string", v |-> "x"]
    /\ fetched.s = "x" /\ fetched.ok /\ ~fetched.panic

(***************************************************************************)
(* Properties of the filtered template filesystem.                         *)
(***************************************************************************)
\* A name satisfies a chain of filters: it matches the glob of every Include
\* and the glob of no Exclude.  No name satisfies a filter whose glob is
\* malformed.
Satisfies(name, filters) ==
    \A n \in DOMAIN filters :
        /\ ~Match(filters[n].glob, name).err
        /\ Match(filters[n].glob, name).matched = filters[n].shouldMatch

\* The name of a path below the root: the path without the leading slash.
Below(name) == IF name = <<>> THEN <<>> ELSE Tail(name)

\* Open succeeds exactly for the names the filesystem under the filters can
\* open and that satisfy every filter.
OpenAsFiltered ==
    fsLast.op = "open" =>
        (fsLast.outcome = "ok" <=>
            /\ UnderlyingOpen(ffs.disk, fsLast.name) # "error"
            /\ Satisfies(Below(fsLast.name), fsLast.filters))

\* Readdir on an opened directory returns only entries that satisfy every
\* filter.
ReaddirAsFiltered ==
    (fsLast.op = "readdir" /\ fsLast.outcome = "ok") =>
        \A e \in fsLast.entries : Satisfies(e, fsLast.filters)

\* C32 (filtered filesystem): Open(name) succeeds iff the filesystem under
\* the filters can open name and name satisfies every filter of the chain,
\* and Readdir on an opened directory returns only the entries that satisfy
\* every filter.
C32_FilteredFileSystem == OpenAsFiltered /\ ReaddirAsFiltered

\* What the code does.  Open of a name that starts with the slash is as the
\* claim has it; Open of the empty name panics under any filter; and Readdir
\* returns the entries whose names without their first character satisfy
\* the filters.
C32_FirstCharacterDropped ==
    /\ (fsLast.op = "open" /\ fsLast.name # <<>>) =>
          (fsLast.outcome = "ok" <=>
              /\ UnderlyingOpen(ffs.disk, fsLast.name) # "error"
              /\ Satisfies(Below(fsLast.name), fsLast.filters))
    /\ (fsLast.op = "open" /\ fsLast.name = <<>>) =>
          fsLast.outcome = IF fsLast.filters = <<>> THEN "ok" ELSE "panic"
    /\ (fsLast.op = "readdir" /\ fsLast.outcome = "ok") =>
          fsLast.entries = {e \in ffs.disk : Satisfies(Tail(e), fsLast.filters)}

\* The case: under Exclude("a*") the listing of the root holds the entry
\* "ab", which Open refuses.
C32_ListsExcluded ==
    /\ fsLast.op = "readdir" /\ fsLast.outcome = "ok"
    /\ fsLast.filters = <<[glob |-> <<"a", "*">>, shouldMatch |-> FALSE]>>
    /\ <<"a", "b">> \in fsLast.entries

\* The case: under Include("a*") alone the root is refused, its own name not
\* matching the glob, though the directory is there.
C32_IncludeRefusesRoot ==
    /\ fsLast.op = "open" /\ fsLast.name = Root /\ fsLast.outcome = "error"
    /\ fsLast.filters = <<[glob |-> <<"a", "*">>, shouldMatch |-> TRUE]>>

====
